---- MODULE Spec2Model ----
(***************************************************************************)
(* Hybrid retrieval of ock4716/cntchatbot_pjt1: SearchEngine               *)
(* (src/src/s6_search_engine.py) on top of EmbeddingManager.embed_text     *)
(* (src/src/s5_embedding_manager.py).                                      *)
(*                                                                         *)
(* Texts are sequences of one-character strings.  Embedding vectors have   *)
(* one integer coordinate, the L2 index returns squared distances.         *)
(* Positions are 0-based as in Python, -1 is the label faiss reports for   *)
(* a result slot it cannot fill.  Fused scores are exact rationals kept    *)
(* as integer numerators over the common denominator                       *)
(* lcm {k_rrf + r : r \in 1..MaxRank}.                                     *)
(***************************************************************************)
EXTENDS Integers, Sequences, FiniteSets, TLC

VARIABLES faiss_index, metadata, chunks, embedding_manager, embedding_cache,
          conversation_history, call

vars == <<faiss_index, metadata, chunks, embedding_manager, embedding_cache,
          conversation_history, call>>

(* ------------------------------ bounds --------------------------------- *)

MaxN == 2
MaxK == 2
MaxFuseLen == 3

MaxRank == IF 2 * MaxK > MaxFuseLen THEN 2 * MaxK ELSE MaxFuseLen

TopKs == 0..MaxK
Coords == {0, 1, 2}
Queries == {<< >>, <<"A", " ", "b">>}
Contents == {<<"a">>, <<"X">>}
BM25Scores == {-1, 1, 2}
KRrfs == {1, 60}
FuseIds == {"chunk_0001", "chunk_0002", "chunk_0003"}

(* ------------------------------ helpers -------------------------------- *)

Min(a, b) == IF a < b THEN a ELSE b

RECURSIVE GCD(_, _)
GCD(a, b) == IF b = 0 THEN a ELSE GCD(b, a % b)

LCM(a, b) == (a \div GCD(a, b)) * b

Range(s) == {s[i] : i \in DOMAIN s}

Take(s, n) == SubSeq(s, 1, Min(n, Len(s)))

(* list[idx] of Python: a negative idx counts from the end *)
PyIndex(list, idx) == IF idx >= 0 THEN list[idx + 1] ELSE list[Len(list) + idx + 1]

ChunkIdOf(i) == <<"chunk_0001", "chunk_0002", "chunk_0003", "chunk_0004">>[i]

NoCall ==
    [op |-> "none", phase |-> "idle", query |-> << >>, top_k |-> 0, k_rrf |-> 0,
     raised |-> FALSE, api_failed |-> FALSE, sub_top_k |-> << >>,
     vector_results |-> << >>, keyword_results |-> << >>, fused |-> << >>,
     results |-> << >>, first_results |-> << >>, runs |-> 0]

(* ------------------- EmbeddingManager.embed_text ----------------------- *)

(* the vector np.zeros(self.dimension) *)
ZeroVector == 0

(* the hosted embedding model, client.embeddings.create: a fixed function  *)
(* of the text that never answers with the zero vector                     *)
EmbedModel(text) == Min(Len(text) + 1, 2)

(* get_text_hash: MD5 of the text, taken to be free of collisions          *)
get_text_hash(text) == text

(* api_ok: whether the upstream call succeeds (only asked on a cache miss) *)
embed_text(text, api_ok) ==
    LET text_hash == get_text_hash(text) IN
    IF text_hash \in DOMAIN embedding_cache
    THEN [embedding |-> embedding_cache[text_hash], cache |-> embedding_cache,
          api_failed |-> FALSE]
    ELSE IF api_ok
         THEN [embedding |-> EmbedModel(text),
               cache |-> [h \in DOMAIN embedding_cache \cup {text_hash} |->
                            IF h = text_hash THEN EmbedModel(text)
                            ELSE embedding_cache[h]],
               api_failed |-> FALSE]
         ELSE [embedding |-> ZeroVector, cache |-> embedding_cache,
               api_failed |-> TRUE]

(* ---------------------- SearchEngine: tokenizer ------------------------ *)

Lower(c) == CASE c = "A" -> "a" [] c = "B" -> "b" [] c = "X" -> "x" [] OTHER -> c

IsWordChar(c) == c \in {"a", "b", "x", "A", "B", "X"}

RECURSIVE FindAllWords(_, _, _, _)
FindAllWords(text, i, cur, acc) ==
    IF i > Len(text)
    THEN IF cur = << >> THEN acc ELSE Append(acc, cur)
    ELSE IF IsWordChar(text[i])
         THEN FindAllWords(text, i + 1, Append(cur, text[i]), acc)
         ELSE FindAllWords(text, i + 1, << >>,
                           IF cur = << >> THEN acc ELSE Append(acc, cur))

(* re.findall(r'\w+', text.lower()) *)
tokenize_korean(text) ==
    FindAllWords([i \in 1..Len(text) |-> Lower(text[i])], 1, << >>, << >>)

(* self.bm25_corpus as _build_bm25_index leaves it *)
bm25_corpus == [i \in 1..Len(chunks) |-> tokenize_korean(chunks[i].content)]

(* ---------------------- SearchEngine.vector_search --------------------- *)

(* distance faiss reports in a slot it cannot fill (FLT_MAX) *)
FLT_MAX == 1000000

Orders(n) == {p \in [1..n -> 0..(n - 1)] : \A i, j \in 1..n : i # j => p[i] # p[j]}

L2(x, y) == (x - y) * (x - y)

(* IndexFlatL2.search: every ordering of the stored vectors by ascending   *)
(* squared distance (ties in any order)                                    *)
NearestOrders(xq) ==
    {p \in Orders(Len(faiss_index)) :
        \A i, j \in 1..Len(faiss_index) :
            i < j => L2(faiss_index[p[i] + 1], xq) <= L2(faiss_index[p[j] + 1], xq)}

(* the k result slots of self.faiss_index.search(query_embedding, top_k):  *)
(* slots beyond ntotal carry label -1 and distance FLT_MAX                 *)
faiss_search(xq, k, order) ==
    [j \in 1..k |->
        IF j <= Len(faiss_index)
        THEN [idx |-> order[j], distance |-> L2(faiss_index[order[j] + 1], xq)]
        ELSE [idx |-> -1, distance |-> FLT_MAX]]

VectorResult(i, hit) ==
    [rank |-> i,
     chunk_id |-> PyIndex(metadata, hit.idx).chunk_id,
     content |-> PyIndex(metadata, hit.idx).content,
     metadata |-> PyIndex(metadata, hit.idx).metadata,
     score |-> [num |-> 1, den |-> 1 + hit.distance],
     search_type |-> "vector"]

RECURSIVE VectorResultsFrom(_, _)
VectorResultsFrom(hits, i) ==
    IF i > Len(hits) THEN << >>
    ELSE IF hits[i].idx < Len(metadata)
         THEN <<VectorResult(i, hits[i])>> \o VectorResultsFrom(hits, i + 1)
         ELSE VectorResultsFrom(hits, i + 1)

(* every outcome of vector_search(query, top_k) in the current state:      *)
(* raised, or a result list together with the cache embed_text leaves      *)
vector_search(query, top_k) ==
    IF ~embedding_manager
    THEN {[raised |-> TRUE, api_failed |-> FALSE, results |-> << >>,
           cache |-> embedding_cache]}
    ELSE UNION {
        LET e == embed_text(query, api_ok) IN
        IF top_k = 0
        THEN {[raised |-> r, api_failed |-> e.api_failed, results |-> << >>,
               cache |-> e.cache] : r \in BOOLEAN}
        ELSE {[raised |-> FALSE, api_failed |-> e.api_failed,
               results |-> VectorResultsFrom(faiss_search(e.embedding, top_k, order), 1),
               cache |-> e.cache] : order \in NearestOrders(e.embedding)}
        : api_ok \in IF get_text_hash(query) \in DOMAIN embedding_cache
                     THEN {TRUE} ELSE BOOLEAN}

(* ---------------------- SearchEngine.keyword_search -------------------- *)

(* self.bm25.get_scores(query_tokens): a document sharing no token with    *)
(* the query scores 0, any other document some BM25 value                  *)
BM25ScoreArrays(query_tokens) ==
    {s \in [1..Len(chunks) -> BM25Scores \cup {0}] :
        \A i \in 1..Len(chunks) :
            IF Range(bm25_corpus[i]) \cap Range(query_tokens) = {}
            THEN s[i] = 0 ELSE s[i] \in BM25Scores}

(* np.argsort(scores)[::-1]: every ordering by descending score *)
ArgsortDescending(scores) ==
    {p \in Orders(Len(scores)) :
        \A i, j \in 1..Len(scores) : i < j => scores[p[i] + 1] >= scores[p[j] + 1]}

KeywordResult(i, idx, scores) ==
    [rank |-> i,
     chunk_id |-> PyIndex(chunks, idx).chunk_id,
     content |-> PyIndex(chunks, idx).content,
     metadata |-> PyIndex(chunks, idx).metadata,
     score |-> [num |-> scores[idx + 1], den |-> 1],
     search_type |-> "keyword"]

RECURSIVE KeywordResultsFrom_zero_kept(_, _, _)
(* the filter written scores[idx] >= 0: documents of score 0 are returned *)
KeywordResultsFrom_zero_kept(top_indices, scores, i) ==
    IF i > Len(top_indices) THEN << >>
    ELSE IF scores[top_indices[i] + 1] >= 0
         THEN <<KeywordResult(i, top_indices[i], scores)>>
              \o KeywordResultsFrom_zero_kept(top_indices, scores, i + 1)
         ELSE KeywordResultsFrom_zero_kept(top_indices, scores, i + 1)

RECURSIVE KeywordResultsFrom(_, _, _)
KeywordResultsFrom(top_indices, scores, i) ==
    IF i > Len(top_indices) THEN << >>
    ELSE IF scores[top_indices[i] + 1] > 0
         THEN <<KeywordResult(i, top_indices[i], scores)>>
              \o KeywordResultsFrom(top_indices, scores, i + 1)
         ELSE KeywordResultsFrom(top_indices, scores, i + 1)

(* every result list keyword_search(query, top_k) can return *)
keyword_search(query, top_k) ==
    UNION {
        {KeywordResultsFrom(Take(order, top_k), scores, 1) :
            order \in ArgsortDescending(scores)}
        : scores \in BM25ScoreArrays(tokenize_korean(query))}

(* ------------------ SearchEngine.reciprocal_rank_fusion ---------------- *)

RECURSIVE LcmOfOthers(_, _, _)
LcmOfOthers(k, r, j) ==
    IF j > MaxRank THEN 1
    ELSE IF j = r THEN LcmOfOthers(k, r, j + 1)
         ELSE LCM(k + j, LcmOfOthers(k, r, j + 1))

(* 1 / (k + rank), as the numerator over lcm {k + j : j \in 1..MaxRank} *)
RRFTerm ==
    [k \in KRrfs |-> [rank \in 1..MaxRank |->
        LcmOfOthers(k, rank, 1) \div GCD(LcmOfOthers(k, rank, 1), k + rank)]]

IndexOfId(acc, chunk_id) ==
    IF \E i \in 1..Len(acc) : acc[i].chunk_id = chunk_id
    THEN CHOOSE i \in 1..Len(acc) : acc[i].chunk_id = chunk_id
    ELSE 0

(* one pass of a loop body over chunk_scores / chunk_data, both kept in    *)
(* the insertion order of the dict; overwrite: chunk_data[chunk_id] is     *)
(* assigned even when the id is already there                              *)
Accumulate(acc, result, k, overwrite) ==
    LET i == IndexOfId(acc, result.chunk_id)
        rrf_score == RRFTerm[k][result.rank]
    IN IF i = 0
       THEN Append(acc, [chunk_id |-> result.chunk_id, score |-> rrf_score,
                         data |-> result])
       ELSE [acc EXCEPT ![i] = [chunk_id |-> @.chunk_id,
                                score |-> @.score + rrf_score,
                                data |-> IF overwrite THEN result ELSE @.data]]

RECURSIVE AccumulateAll(_, _, _, _, _)
AccumulateAll(acc, list, i, k, overwrite) ==
    IF i > Len(list) THEN acc
    ELSE AccumulateAll(Accumulate(acc, list[i], k, overwrite), list, i + 1, k, overwrite)

(* x goes in front of the items of equal score: ties come out reversed *)
InsertDescending_ties_reversed(sorted, x) ==
    LET n == Cardinality({i \in 1..Len(sorted) : sorted[i].score > x.score})
    IN SubSeq(sorted, 1, n) \o <<x>> \o SubSeq(sorted, n + 1, Len(sorted))

(* x goes behind every item whose score is not smaller: stable, descending *)
InsertDescending(sorted, x) ==
    LET n == Cardinality({i \in 1..Len(sorted) : sorted[i].score >= x.score})
    IN SubSeq(sorted, 1, n) \o <<x>> \o SubSeq(sorted, n + 1, Len(sorted))

RECURSIVE SortedDescending(_, _)
(* sorted(chunk_scores.items(), key=lambda x: x[1], reverse=True) *)
SortedDescending(items, i) ==
    IF i = 0 THEN << >>
    ELSE InsertDescending(SortedDescending(items, i - 1), items[i])

(* result = chunk_data[chunk_id].copy() with rank, rrf_score, search_type set *)
FusedResult(i, item) ==
    [rank |-> i,
     chunk_id |-> item.data.chunk_id,
     content |-> item.data.content,
     metadata |-> item.data.metadata,
     score |-> item.data.score,
     rrf_score |-> item.score,
     search_type |-> "hybrid"]

reciprocal_rank_fusion(vector_results, keyword_results, k) ==
    LET after_vector == AccumulateAll(<< >>, vector_results, 1, k, TRUE)
        chunk_scores == AccumulateAll(after_vector, keyword_results, 1, k, FALSE)
        sorted_chunks == SortedDescending(chunk_scores, Len(chunk_scores))
    IN [i \in 1..Len(sorted_chunks) |-> FusedResult(i, sorted_chunks[i])]

(* ---------------------- SearchEngine.hybrid_search --------------------- *)

(* k of reciprocal_rank_fusion when hybrid_search calls it (the default) *)
DefaultRRFK == 60

(* no over-fetch: each sub-search is asked for top_k candidates *)
SubSearchTopK_no_overfetch(top_k) == top_k

(* top_k*2, the number of candidates asked of each sub-search *)
SubSearchTopK(top_k) == top_k * 2

(* the slice left out: the whole fused list goes back to the caller *)
Truncate_whole_list(hybrid_results, top_k) == hybrid_results

(* hybrid_results[:top_k] *)
Truncate(hybrid_results, top_k) == Take(hybrid_results, top_k)

(* every outcome of hybrid_search(query, top_k) in the current state *)
hybrid_search(query, top_k) ==
    UNION {
        IF v.raised
        THEN {[raised |-> TRUE, api_failed |-> v.api_failed, cache |-> v.cache,
               sub_top_k |-> <<SubSearchTopK(top_k)>>,
               vector_results |-> << >>, keyword_results |-> << >>,
               fused |-> << >>, results |-> << >>]}
        ELSE {[raised |-> FALSE, api_failed |-> v.api_failed, cache |-> v.cache,
               sub_top_k |-> <<SubSearchTopK(top_k), SubSearchTopK(top_k)>>,
               vector_results |-> v.results, keyword_results |-> kw,
               fused |-> reciprocal_rank_fusion(v.results, kw, DefaultRRFK),
               results |-> Truncate(reciprocal_rank_fusion(v.results, kw, DefaultRRFK),
                                    top_k)]
              : kw \in keyword_search(query, SubSearchTopK(top_k))}
        : v \in vector_search(query, SubSearchTopK(top_k))}

(* ------------------------------ the engine ----------------------------- *)

ChunkAt(i, content) ==
    [chunk_id |-> ChunkIdOf(i), content |-> content, metadata |-> [page |-> i]]

(* a SearchEngine built from a persisted index, its metadata array and the *)
(* chunk list it was built from; the embedding cache starts empty.  There  *)
(* is at least one chunk: BM25Okapi divides by the corpus size, so         *)
(* __init__ does not complete on an empty chunk list.                      *)
Init ==
    /\ \E n \in 1..MaxN :
        /\ faiss_index \in [1..n -> Coords]
        /\ \E contents \in [1..n -> Contents] :
            /\ chunks = [i \in 1..n |-> ChunkAt(i, contents[i])]
            /\ metadata = [i \in 1..n |-> ChunkAt(i, contents[i])]
    /\ embedding_manager \in BOOLEAN
    /\ embedding_cache = << >>
    /\ conversation_history = << >>
    /\ call = NoCall

VectorSearch(query, top_k) ==
    /\ call.phase = "idle"
    /\ \E o \in vector_search(query, top_k) :
        /\ embedding_cache' = o.cache
        /\ call' = [NoCall EXCEPT !.op = "vector_search", !.phase = "returned",
                                  !.query = query, !.top_k = top_k,
                                  !.raised = o.raised, !.api_failed = o.api_failed,
                                  !.results = o.results]
    /\ UNCHANGED <<faiss_index, metadata, chunks, embedding_manager, conversation_history>>

KeywordSearch(query, top_k) ==
    /\ call.phase = "idle"
    /\ \E results \in keyword_search(query, top_k) :
        call' = [NoCall EXCEPT !.op = "keyword_search", !.phase = "returned",
                               !.query = query, !.top_k = top_k,
                               !.results = results]
    /\ UNCHANGED <<faiss_index, metadata, chunks, embedding_manager, conversation_history, embedding_cache>>

HybridSearch(query, top_k) ==
    /\ call.phase = "idle"
    /\ \E o \in hybrid_search(query, top_k) :
        /\ embedding_cache' = o.cache
        /\ call' = [NoCall EXCEPT !.op = "hybrid_search", !.phase = "returned",
                                  !.query = query, !.top_k = top_k,
                                  !.k_rrf = DefaultRRFK,
                                  !.raised = o.raised, !.api_failed = o.api_failed,
                                  !.sub_top_k = o.sub_top_k,
                                  !.vector_results = o.vector_results,
                                  !.keyword_results = o.keyword_results,
                                  !.fused = o.fused,
                                  !.results = o.results]
    /\ UNCHANGED <<faiss_index, metadata, chunks, embedding_manager, conversation_history>>

(* the caller takes the outcome of the call and is free to call again *)
TakeResult ==
    /\ call.phase = "returned"
    /\ call' = NoCall
    /\ UNCHANGED <<faiss_index, metadata, chunks, embedding_manager, conversation_history, embedding_cache>>

Next ==
    \/ \E query \in Queries, top_k \in TopKs : VectorSearch(query, top_k)
    \/ \E query \in Queries, top_k \in TopKs : KeywordSearch(query, top_k)
    \/ \E query \in Queries, top_k \in TopKs : HybridSearch(query, top_k)
    \/ TakeResult

Spec == Init /\ [][Next]_vars

(* --------- reciprocal_rank_fusion on lists the caller supplies --------- *)

SeqsUpTo(S, n) == UNION {[1..m -> S] : m \in 0..n}

(* a ranked list as a sub-search hands it over: rank i at position i *)
RankedList(ids, search_type) ==
    [i \in 1..Len(ids) |->
        [rank |-> i, chunk_id |-> ids[i], content |-> <<"a">>,
         metadata |-> [page |-> 0],
         score |-> IF search_type = "vector"
                   THEN [num |-> 1, den |-> 1 + i]
                   ELSE [num |-> MaxFuseLen + 1 - i, den |-> 1],
         search_type |-> search_type]]

FusionInit ==
    /\ faiss_index = <<0>>
    /\ chunks = <<ChunkAt(1, <<"a">>)>>
    /\ metadata = <<ChunkAt(1, <<"a">>)>>
    /\ embedding_manager = TRUE
    /\ embedding_cache = << >>
    /\ conversation_history = << >>
    /\ \E vector_ids \in SeqsUpTo(FuseIds, MaxFuseLen),
          keyword_ids \in SeqsUpTo(FuseIds, MaxFuseLen),
          k \in KRrfs :
        call = [NoCall EXCEPT !.op = "reciprocal_rank_fusion", !.phase = "called",
                              !.k_rrf = k,
                              !.vector_results = RankedList(vector_ids, "vector"),
                              !.keyword_results = RankedList(keyword_ids, "keyword")]

(* the first run on the supplied lists *)
Fuse ==
    /\ call.op = "reciprocal_rank_fusion"
    /\ call.phase = "called"
    /\ call' = [call EXCEPT !.phase = "returned", !.runs = 1,
                            !.results = reciprocal_rank_fusion(call.vector_results,
                                                               call.keyword_results,
                                                               call.k_rrf)]
    /\ UNCHANGED <<faiss_index, metadata, chunks, embedding_manager, conversation_history, embedding_cache>>

(* a second run on the same lists; the outcome of the first run is kept *)
FuseAgain ==
    /\ call.op = "reciprocal_rank_fusion"
    /\ call.phase = "returned"
    /\ call.runs = 1
    /\ call' = [call EXCEPT !.runs = 2, !.first_results = call.results,
                            !.results = reciprocal_rank_fusion(call.vector_results,
                                                               call.keyword_results,
                                                               call.k_rrf)]
    /\ UNCHANGED <<faiss_index, metadata, chunks, embedding_manager, conversation_history, embedding_cache>>

FusionNext == Fuse \/ FuseAgain

SpecFusion == FusionInit /\ [][FusionNext]_vars

(* ------------------------------ properties ----------------------------- *)

Returned(op) == call.op = op /\ call.phase = "returned"

DistinctChunkIds(list) ==
    \A i, j \in 1..Len(list) : i # j => list[i].chunk_id # list[j].chunk_id

(* C1: whenever hybrid_search(query, k) with k >= 1 returns, the list has  *)
(* at most k results and no two of them carry the same chunk_id.           *)
C1_HybridAtMostKDistinct ==
    (Returned("hybrid_search") /\ ~call.raised /\ call.top_k >= 1)
        => /\ Len(call.results) <= call.top_k
           /\ DistinctChunkIds(call.results)

(* hybrid_search returned k = 2 results although the vector list it fused  *)
(* named one chunk more than once                                          *)
C1_Witness ==
    /\ Returned("hybrid_search") /\ ~call.raised
    /\ call.top_k = 2
    /\ Len(call.results) = 2
    /\ ~DistinctChunkIds(call.vector_results)

Positions(list, chunk_id) == {i \in 1..Len(list) : list[i].chunk_id = chunk_id}

(* what one list may contribute to the fused score of chunk_id when it     *)
(* counts once: nothing if the id is absent, else the term of one of its   *)
(* ranks                                                                   *)
OneTermOf(list, chunk_id, k) ==
    IF Positions(list, chunk_id) = {} THEN {0}
    ELSE {RRFTerm[k][list[i].rank] : i \in Positions(list, chunk_id)}

(* C2: in the fusion hybrid_search runs, the fused list holds exactly the  *)
(* chunk ids of the two lists, and the fused score of each id is one       *)
(* 1/(k_rrf + rank) term per list the id appears in.                       *)
C2_OneTermPerList ==
    (Returned("hybrid_search") /\ ~call.raised)
        => /\ {call.fused[i].chunk_id : i \in 1..Len(call.fused)}
                = {call.vector_results[i].chunk_id : i \in 1..Len(call.vector_results)}
                  \cup {call.keyword_results[i].chunk_id : i \in 1..Len(call.keyword_results)}
           /\ \A i \in 1..Len(call.fused) :
                call.fused[i].rrf_score \in
                    {a + b : a \in OneTermOf(call.vector_results,
                                             call.fused[i].chunk_id, call.k_rrf),
                             b \in OneTermOf(call.keyword_results,
                                             call.fused[i].chunk_id, call.k_rrf)}

(* position at which chunk_id is first met when the vector list is read    *)
(* before the keyword list                                                 *)
FirstSeen(chunk_id) ==
    LET both == call.vector_results \o call.keyword_results
    IN CHOOSE i \in Positions(both, chunk_id) :
           \A j \in Positions(both, chunk_id) : i <= j

(* C3: the output of reciprocal_rank_fusion is ordered by fused score      *)
(* descending, ids of equal fused score stay in the order of discovery     *)
(* (vector list, then keyword list), ranks are 1..N, and a second run on   *)
(* the same lists returns the same list.                                   *)
C3_FusedOrderStable ==
    (call.op = "reciprocal_rank_fusion" /\ call.runs >= 1)
        => /\ \A i, j \in 1..Len(call.results) :
                i < j => /\ call.results[i].rrf_score >= call.results[j].rrf_score
                         /\ call.results[i].rrf_score = call.results[j].rrf_score
                              => FirstSeen(call.results[i].chunk_id)
                                   < FirstSeen(call.results[j].chunk_id)
           /\ \A i \in 1..Len(call.results) : call.results[i].rank = i
           /\ call.runs = 2 => call.results = call.first_results

(* fused twice, three ids, two of them with the same fused score, the      *)
(* second of the two discovered in the keyword list only                   *)
C3_Witness ==
    /\ call.op = "reciprocal_rank_fusion" /\ call.runs = 2
    /\ Len(call.results) = 3
    /\ \E i \in 1..2 :
        /\ call.results[i].rrf_score = call.results[i + 1].rrf_score
        /\ Positions(call.vector_results, call.results[i + 1].chunk_id) = {}

(* C4: a chunk that is first in the vector list and first in the keyword   *)
(* list is first in the fused list and in what hybrid_search returns.      *)
C4_FirstInBothIsFirst ==
    (/\ Returned("hybrid_search") /\ ~call.raised /\ call.top_k >= 1
     /\ call.vector_results # << >> /\ call.keyword_results # << >>
     /\ call.vector_results[1].chunk_id = call.keyword_results[1].chunk_id)
        => /\ call.fused[1].chunk_id = call.vector_results[1].chunk_id
           /\ call.results[1].chunk_id = call.vector_results[1].chunk_id

(* C5: when the embedding call fails for the query, vector_search and      *)
(* hybrid_search end in an error.                                          *)
C5_EmbeddingFailureRaises ==
    ((Returned("vector_search") \/ Returned("hybrid_search")) /\ call.api_failed)
        => call.raised

(* C6: on an engine with an embedding manager and a non-empty index, a     *)
(* search with the empty query or with k = 0 returns the empty list and    *)
(* does not raise.                                                         *)
C6_DegenerateQueryEmpty ==
    (/\ call.phase = "returned"
     /\ call.op \in {"vector_search", "keyword_search", "hybrid_search"}
     /\ embedding_manager /\ Len(faiss_index) >= 1
     /\ (call.query = << >> \/ call.top_k = 0))
        => (~call.raised /\ call.results = << >>)

(* C7: vector_search(query, k) returns min(k, N) results for distinct      *)
(* positions, by ascending distance, the i-th with rank i and score        *)
(* 1/(1 + distance).                                                       *)
C7_VectorMinKN ==
    (Returned("vector_search") /\ ~call.raised)
        => /\ Len(call.results) = Min(call.top_k, Len(faiss_index))
           /\ DistinctChunkIds(call.results)
           /\ \A i \in 1..Len(call.results) :
                /\ call.results[i].rank = i
                /\ call.results[i].score.num = 1
                /\ \E p \in 1..Len(faiss_index), xq \in Coords :
                      /\ metadata[p].chunk_id = call.results[i].chunk_id
                      /\ call.results[i].score.den = 1 + L2(faiss_index[p], xq)
           /\ \A i, j \in 1..Len(call.results) :
                i < j => call.results[i].score.den <= call.results[j].score.den

KeywordListOK(list, query, top_k) ==
    /\ Len(list) <= top_k
    /\ \A i \in 1..Len(list) :
        /\ list[i].score.num > 0 /\ list[i].score.den = 1
        /\ list[i].rank = i
        /\ list[i].search_type = "keyword"
    /\ \A i, j \in 1..Len(list) :
        i < j => list[i].score.num >= list[j].score.num
    /\ (\A c \in 1..Len(chunks) :
            Range(tokenize_korean(chunks[c].content))
                \cap Range(tokenize_korean(query)) = {})
         => list = << >>

(* C8: keyword_search(query, k) returns at most k results, all of score    *)
(* > 0, by descending score, with ranks 1..m, and the empty list when no   *)
(* query term occurs in any chunk; it never raises.  The same holds of     *)
(* the keyword list hybrid_search fetches with 2k.                         *)
C8_KeywordPositiveDense ==
    /\ Returned("keyword_search")
         => (~call.raised /\ KeywordListOK(call.results, call.query, call.top_k))
    /\ (Returned("hybrid_search") /\ ~call.raised)
         => KeywordListOK(call.keyword_results, call.query, 2 * call.top_k)

(* keyword_search was asked for 2 of 2 chunks and returned one: the other  *)
(* chunk had no positive score                                             *)
C8_Witness ==
    /\ Returned("keyword_search")
    /\ call.top_k = 2 /\ Len(chunks) = 2
    /\ Len(call.results) = 1

(* C9: hybrid_search(query, k) asks each sub-search for 2k candidates,     *)
(* fuses the two lists once with k_rrf = 60 and returns the first k        *)
(* entries of the fused list.                                              *)
C9_HybridIsTruncatedFusion ==
    Returned("hybrid_search")
        => /\ \A i \in 1..Len(call.sub_top_k) : call.sub_top_k[i] = 2 * call.top_k
           /\ ~call.raised =>
                /\ Len(call.sub_top_k) = 2
                /\ \E o \in vector_search(call.query, 2 * call.top_k) :
                      ~o.raised /\ o.results = call.vector_results
                /\ call.keyword_results \in keyword_search(call.query, 2 * call.top_k)
                /\ call.fused = reciprocal_rank_fusion(call.vector_results,
                                                       call.keyword_results, 60)
                /\ call.results = SubSeq(call.fused, 1, Min(call.top_k, Len(call.fused)))

(* hybrid_search with k = 1 on two chunks: both sub-searches delivered 2   *)
(* candidates, the fused list has 2 entries, 1 is returned                 *)
C9_Witness ==
    /\ Returned("hybrid_search") /\ ~call.raised
    /\ call.top_k = 1
    /\ Len(call.vector_results) = 2 /\ Len(call.keyword_results) = 2
    /\ Len(call.fused) = 2 /\ Len(call.results) = 1

(* lcm {k + j : j \in 1..MaxRank}, the denominator of the fused scores *)
RRFScale(k) == RRFTerm[k][1] * (k + 1)

RECURSIVE RatEq(_, _, _, _)
(* a/b = c/d for b, d > 0, by the Euclidean expansion of both *)
RatEq(a, b, c, d) ==
    /\ a \div b = c \div d
    /\ \/ (a % b = 0 /\ c % d = 0)
       \/ (a % b # 0 /\ c % d # 0 /\ RatEq(b, a % b, d, c % d))

(* C10: the score field of every result of hybrid_search is the fused RRF  *)
(* score of the chunk.                                                     *)
C10_ScoreIsFusedScore ==
    (Returned("hybrid_search") /\ ~call.raised)
        => \A i \in 1..Len(call.results) :
             RatEq(call.results[i].score.num, call.results[i].score.den,
                   call.results[i].rrf_score, RRFScale(call.k_rrf))

(***************************************************************************)
(* ChunkingStrategy (src/src/s4_chunking_strategy.py).  A text is a        *)
(* sequence of one-character strings.  The calls below are recorded in     *)
(* call; the search engine's variables stay at the values of EngineIdle.   *)
(***************************************************************************)

EngineIdle ==
    /\ faiss_index = <<0>>
    /\ chunks = <<ChunkAt(1, <<"a">>)>>
    /\ metadata = <<ChunkAt(1, <<"a">>)>>
    /\ embedding_manager = TRUE
    /\ embedding_cache = << >>
    /\ conversation_history = << >>

EngineUnchanged ==
    UNCHANGED <<faiss_index, metadata, chunks, embedding_manager, conversation_history, embedding_cache>>

(* ------------------------ bounds of the chunker ------------------------ *)

MaxTextLen == 7
MaxChunkSize == 6

SplitAlphabet == {"a", ".", " ", "\n"}

(* --------------------------- self.encoder ------------------------------ *)

(* pairs of characters the encoding knows as one token; every other        *)
(* character is a token of its own                                         *)
Merges == {<<" ", "a">>, <<" ", "b">>}

RECURSIVE EncodeFrom(_, _)
EncodeFrom(text, i) ==
    IF i > Len(text) THEN << >>
    ELSE IF i < Len(text) /\ <<text[i], text[i + 1]>> \in Merges
         THEN <<SubSeq(text, i, i + 1)>> \o EncodeFrom(text, i + 2)
         ELSE <<SubSeq(text, i, i)>> \o EncodeFrom(text, i + 1)

(* self.encoder.encode(text) *)
encode(text) == EncodeFrom(text, 1)

RECURSIVE decode(_)
(* self.encoder.decode(tokens) *)
decode(tokens) ==
    IF tokens = << >> THEN << >> ELSE Head(tokens) \o decode(Tail(tokens))

count_tokens(text) == Len(encode(text))

(* ------------------------- str methods used ---------------------------- *)

IsSpace(c) == c \in {" ", "\n"}

RECURSIVE LStrip(_)
LStrip(text) ==
    IF text # << >> /\ IsSpace(Head(text)) THEN LStrip(Tail(text)) ELSE text

RECURSIVE RStrip(_)
RStrip(text) ==
    IF text # << >> /\ IsSpace(text[Len(text)])
    THEN RStrip(SubSeq(text, 1, Len(text) - 1)) ELSE text

(* text.strip() *)
Strip(text) == LStrip(RStrip(text))

(* text.replace('\n', ' ') *)
ReplaceNewlines(text) ==
    [i \in 1..Len(text) |-> IF text[i] = "\n" THEN " " ELSE text[i]]

RECURSIVE SplitFrom(_, _, _)
(* text.split('. '): the parts between the occurrences of '. ' found from  *)
(* left to right, cur being the part read so far                           *)
SplitFrom(text, i, cur) ==
    IF i > Len(text) THEN <<cur>>
    ELSE IF i < Len(text) /\ text[i] = "." /\ text[i + 1] = " "
         THEN <<cur>> \o SplitFrom(text, i + 2, << >>)
         ELSE SplitFrom(text, i + 1, Append(cur, text[i]))

SplitDotSpace(text) == SplitFrom(text, 1, << >>)

(* ----------------- ChunkingStrategy.split_text_by_tokens --------------- *)

RECURSIVE SplitLoop_strict(_, _, _, _)
(* the test written current_tokens + sentence_tokens < max_tokens *)
SplitLoop_strict(sentences, i, st, max_tokens) ==
    IF i > Len(sentences) THEN st
    ELSE LET stripped == Strip(sentences[i]) IN
         IF stripped = << >>
         THEN SplitLoop_strict(sentences, i + 1, st, max_tokens)
         ELSE LET sentence == stripped \o <<".", " ">>
                  sentence_tokens == count_tokens(sentence)
              IN IF st.current_tokens + sentence_tokens < max_tokens
                 THEN SplitLoop_strict(sentences, i + 1,
                        [chunks |-> st.chunks,
                         current_chunk |-> st.current_chunk \o sentence,
                         current_tokens |-> st.current_tokens + sentence_tokens],
                        max_tokens)
                 ELSE SplitLoop_strict(sentences, i + 1,
                        [chunks |-> IF st.current_chunk # << >>
                                    THEN Append(st.chunks, Strip(st.current_chunk))
                                    ELSE st.chunks,
                         current_chunk |-> sentence,
                         current_tokens |-> sentence_tokens],
                        max_tokens)

(* the local variables after the loop body has run for sentences[i..] *)
RECURSIVE SplitLoop(_, _, _, _)
SplitLoop(sentences, i, st, max_tokens) ==
    IF i > Len(sentences) THEN st
    ELSE LET stripped == Strip(sentences[i]) IN
         IF stripped = << >>
         THEN SplitLoop(sentences, i + 1, st, max_tokens)
         ELSE LET sentence == stripped \o <<".", " ">>
                  sentence_tokens == count_tokens(sentence)
              IN IF st.current_tokens + sentence_tokens <= max_tokens
                 THEN SplitLoop(sentences, i + 1,
                        [chunks |-> st.chunks,
                         current_chunk |-> st.current_chunk \o sentence,
                         current_tokens |-> st.current_tokens + sentence_tokens],
                        max_tokens)
                 ELSE SplitLoop(sentences, i + 1,
                        [chunks |-> IF st.current_chunk # << >>
                                    THEN Append(st.chunks, Strip(st.current_chunk))
                                    ELSE st.chunks,
                         current_chunk |-> sentence,
                         current_tokens |-> sentence_tokens],
                        max_tokens)

(* the piece still being filled when the loop ends is not emitted *)
split_text_by_tokens_no_last(text, max_tokens) ==
    SplitLoop(SplitDotSpace(ReplaceNewlines(text)), 1,
              [chunks |-> << >>, current_chunk |-> << >>, current_tokens |-> 0],
              max_tokens).chunks

split_text_by_tokens(text, max_tokens) ==
    LET sentences == SplitDotSpace(ReplaceNewlines(text))
        st == SplitLoop(sentences, 1,
                        [chunks |-> << >>, current_chunk |-> << >>,
                         current_tokens |-> 0], max_tokens)
    IN IF st.current_chunk # << >>
       THEN Append(st.chunks, Strip(st.current_chunk))
       ELSE st.chunks

(* split_text_by_tokens on every text and bound within the bounds *)
SplitInit ==
    /\ EngineIdle
    /\ \E text \in SeqsUpTo(SplitAlphabet, MaxTextLen), max_tokens \in 1..MaxChunkSize :
        call = [op |-> "split_text_by_tokens", phase |-> "called",
                text |-> text, max_tokens |-> max_tokens, pieces |-> << >>]

SplitText ==
    /\ call.op = "split_text_by_tokens"
    /\ call.phase = "called"
    /\ call' = [call EXCEPT !.phase = "returned",
                            !.pieces = split_text_by_tokens(call.text, call.max_tokens)]
    /\ EngineUnchanged

SplitNext == SplitText

SpecSplit == SplitInit /\ [][SplitNext]_vars

(* ----------------------- ChunkingStrategy.chunk_pages ------------------ *)

(* a Python dict read with d.get(key, default) *)
Get(d, key, default) == IF key \in DOMAIN d THEN d[key] ELSE default

(* {**d, **e}: the keys of both, the values of e where both have the key *)
DictUpdate(d, e) ==
    [key \in (DOMAIN d) \cup (DOMAIN e) |-> IF key \in DOMAIN e THEN e[key] ELSE d[key]]

(* sep.join(texts) *)
RECURSIVE Join(_, _)
Join(sep, texts) ==
    IF texts = << >> THEN << >>
    ELSE IF Len(texts) = 1 THEN texts[1]
         ELSE texts[1] \o sep \o Join(sep, Tail(texts))

DigitChar(d) == <<"0", "1", "2", "3", "4", "5", "6", "7", "8", "9">>[d + 1]

(* str(n) for n >= 0 *)
RECURSIVE Str(_)
Str(n) == IF n < 10 THEN <<DigitChar(n)>> ELSE Str(n \div 10) \o <<DigitChar(n % 10)>>

RECURSIVE ZeroPad(_, _)
ZeroPad(digits, width) ==
    IF Len(digits) >= width THEN digits ELSE ZeroPad(<<"0">> \o digits, width)

(* f"{n:04d}" *)
Format04d(n) == ZeroPad(Str(n), 4)

(* pages_dict after the grouping loop has run for text_blocks[i..]: a dict *)
(* in insertion order, as a sequence of [page_num, texts]                  *)
RECURSIVE GroupPages(_, _, _)
GroupPages(text_blocks, i, pages_dict) ==
    IF i > Len(text_blocks) THEN pages_dict
    ELSE LET block == text_blocks[i]
             page_num == Get(block, "page_num", 0)
             at == {j \in 1..Len(pages_dict) : pages_dict[j].page_num = page_num}
         IN IF at = {}
            THEN GroupPages(text_blocks, i + 1,
                   Append(pages_dict, [page_num |-> page_num, texts |-> <<block.text>>]))
            ELSE GroupPages(text_blocks, i + 1,
                   [j \in 1..Len(pages_dict) |->
                      IF j \in at
                      THEN [pages_dict[j] EXCEPT !.texts = Append(@, block.text)]
                      ELSE pages_dict[j]])

RECURSIVE InsertAscending(_, _)
InsertAscending(sorted, entry) ==
    IF sorted = << >> THEN <<entry>>
    ELSE IF entry.page_num < Head(sorted).page_num THEN <<entry>> \o sorted
         ELSE <<Head(sorted)>> \o InsertAscending(Tail(sorted), entry)

(* the pages taken in the order their first block came in *)
SortedPages_insertion_order(pages_dict) == pages_dict

(* for page_num in sorted(pages_dict.keys()) *)
RECURSIVE SortedPages(_)
SortedPages(pages_dict) ==
    IF pages_dict = << >> THEN << >>
    ELSE InsertAscending(SortedPages(SubSeq(pages_dict, 1, Len(pages_dict) - 1)),
                         pages_dict[Len(pages_dict)])

ChunkPrefix == <<"c", "h", "u", "n", "k", "_">>

TextChunk(chunk_counter, chunk_text, institution, page_num) ==
    [chunk_id |-> ChunkPrefix \o Format04d(chunk_counter),
     content  |-> chunk_text,
     metadata |-> [institution  |-> institution,
                   doc_type     |-> "text",
                   page         |-> page_num,
                   chunk_tokens |-> count_tokens(chunk_text)]]

(* the chunks of one page, numbered from chunk_counter on *)
PageChunks(text_chunks, chunk_counter, institution, page_num) ==
    [j \in 1..Len(text_chunks) |->
        TextChunk(chunk_counter + j - 1, text_chunks[j], institution, page_num)]

(* all_chunks after the page loop has run for pages[i..] *)
RECURSIVE PageLoop(_, _, _, _, _, _)
PageLoop(pages, i, all_chunks, chunk_counter, institution, chunk_size) ==
    IF i > Len(pages) THEN all_chunks
    ELSE LET page_text == Join(<<"\n">>, pages[i].texts)
             text_chunks == split_text_by_tokens(page_text, chunk_size)
         IN PageLoop(pages, i + 1,
                     all_chunks \o PageChunks(text_chunks, chunk_counter,
                                              institution, pages[i].page_num),
                     chunk_counter + Len(text_chunks), institution, chunk_size)

chunk_pages(text_blocks, institution, chunk_size) ==
    PageLoop(SortedPages(GroupPages(text_blocks, 1, << >>)), 1, << >>, 1,
             institution, chunk_size)

(* ------------------- properties of split_text_by_tokens ---------------- *)

RECURSIVE NonBlankStripped(_)
NonBlankStripped(parts) ==
    IF parts = << >> THEN << >>
    ELSE IF Strip(Head(parts)) = << >> THEN NonBlankStripped(Tail(parts))
         ELSE <<Strip(Head(parts))>> \o NonBlankStripped(Tail(parts))

(* the sentence units of a text: the non-blank parts, stripped, that '. '  *)
(* separates once newlines are spaces                                      *)
Units(text) == NonBlankStripped(SplitDotSpace(ReplaceNewlines(text)))

(* the units a piece is made of: a piece ends where the '. ' of its last   *)
(* unit lost the space                                                     *)
UnitsOfPiece(piece) == Units(piece \o <<" ">>)

RECURSIVE UnitsOfPieces(_)
UnitsOfPieces(pieces) ==
    IF pieces = << >> THEN << >>
    ELSE UnitsOfPiece(Head(pieces)) \o UnitsOfPieces(Tail(pieces))

UnitTokens(unit) == count_tokens(unit \o <<".", " ">>)

RECURSIVE SumUnitTokens(_)
SumUnitTokens(units) ==
    IF units = << >> THEN 0 ELSE UnitTokens(Head(units)) + SumUnitTokens(Tail(units))

(* C15: split_text_by_tokens drops no unit: the units of the pieces, read  *)
(* piece after piece, are the units of the text in their order; a unit     *)
(* with more tokens than the bound is a piece of its own; the empty text   *)
(* gives no piece.                                                         *)
C15_NoUnitDropped ==
    (call.op = "split_text_by_tokens" /\ call.phase = "returned")
        => /\ UnitsOfPieces(call.pieces) = Units(call.text)
           /\ \A p \in 1..Len(call.pieces) :
                (\E u \in 1..Len(UnitsOfPiece(call.pieces[p])) :
                    UnitTokens(UnitsOfPiece(call.pieces[p])[u]) > call.max_tokens)
                  => Len(UnitsOfPiece(call.pieces[p])) = 1
           /\ call.text = << >> => call.pieces = << >>

(* a text with a newline and three units, one of them over the bound,      *)
(* split into more than one piece                                          *)
C15_Witness ==
    /\ call.op = "split_text_by_tokens" /\ call.phase = "returned"
    /\ "\n" \in Range(call.text)
    /\ Len(Units(call.text)) = 3
    /\ Len(call.pieces) >= 2
    /\ \E u \in 1..3 : UnitTokens(Units(call.text)[u]) > call.max_tokens

(* C16: every piece is non-empty and either its units sum to at most       *)
(* max_tokens or it is a single unit; a piece ends only where the next     *)
(* unit would take the running sum over max_tokens.                        *)
C16_GreedyPacking ==
    (call.op = "split_text_by_tokens" /\ call.phase = "returned")
        => /\ \A p \in 1..Len(call.pieces) :
                /\ call.pieces[p] # << >>
                /\ Len(UnitsOfPiece(call.pieces[p])) >= 1
                /\ \/ SumUnitTokens(UnitsOfPiece(call.pieces[p])) <= call.max_tokens
                   \/ Len(UnitsOfPiece(call.pieces[p])) = 1
           /\ \A p \in 1..(Len(call.pieces) - 1) :
                SumUnitTokens(UnitsOfPiece(call.pieces[p]))
                  + UnitTokens(UnitsOfPiece(call.pieces[p + 1])[1]) > call.max_tokens

(* three units: two fill the first piece exactly, the third opens the next *)
C16_Witness ==
    /\ call.op = "split_text_by_tokens" /\ call.phase = "returned"
    /\ Len(call.pieces) = 2
    /\ Len(UnitsOfPiece(call.pieces[1])) = 2
    /\ SumUnitTokens(UnitsOfPiece(call.pieces[1])) = call.max_tokens


(* --------------- table and image records, and their chunks ------------- *)

(* f"[{caption}]\n\n{description}" *)
Captioned(caption, description) ==
    <<"[">> \o caption \o <<"]", "\n", "\n">> \o description

(* TableProcessor.process_table: the record of a table, its content        *)
(* carrying the caption line when there is a caption                       *)
process_table(natural_language, table_id, page_num, caption) ==
    [table_id     |-> table_id,
     page_num     |-> page_num,
     caption      |-> caption,
     content      |-> IF caption # << >> THEN Captioned(caption, natural_language)
                      ELSE natural_language,
     content_type |-> "table"]

(* ImageAnalyzer.generate_graph_description: the record of an image *)
generate_graph_description(image_path, page_num, caption, description) ==
    [image_path    |-> image_path,
     page          |-> page_num,
     caption       |-> caption,
     description   |-> description,
     analysis_date |-> "None"]

TablePrefix == ChunkPrefix \o <<"t", "a", "b", "l", "e", "_">>

ImagePrefix == ChunkPrefix \o <<"i", "m", "a", "g", "e", "_">>

Unknown == <<"u", "n", "k", "n", "o", "w", "n">>

make_table_to_chunk(table_data) ==
    LET table_content == Get(table_data, "content", << >>)
    IN [chunk_id |-> TablePrefix \o table_data.table_id,
        content  |-> table_content,
        metadata |-> [institution  |-> Get(table_data, "institution", "unknown"),
                      doc_type     |-> "table",
                      table_id     |-> table_data.table_id,
                      page         |-> Get(table_data, "page_num", 0),
                      chunk_tokens |-> count_tokens(table_content)]]

(* the file name kept as it is *)
ReplaceDots_kept(image_filename) == image_filename

(* image_filename.replace(".", "_") *)
ReplaceDots(image_filename) ==
    [i \in 1..Len(image_filename) |->
        IF image_filename[i] = "." THEN "_" ELSE image_filename[i]]

ImageContent(caption, image_description) ==
    IF caption # << >> THEN Captioned(caption, image_description)
    ELSE image_description

make_image_to_chunk(image_data) ==
    LET image_description == Get(image_data, "description", << >>)
        caption == Get(image_data, "caption", << >>)
        chunk_content == ImageContent(caption, image_description)
        image_path == Get(image_data, "image_path", << >>)
        image_filename == Get(image_data, "image_filename", << >>)
        image_id == IF image_filename # << >> THEN ReplaceDots(image_filename)
                    ELSE Unknown
    IN [chunk_id |-> ImagePrefix \o image_id,
        content  |-> chunk_content,
        metadata |-> [institution  |-> Get(image_data, "institution", "unknown"),
                      doc_type     |-> "image",
                      image_path   |-> image_path,
                      caption      |-> caption,
                      page         |-> Get(image_data, "page_num", 0),
                      chunk_tokens |-> count_tokens(chunk_content)]]

(* ---------------------- ChunkingStrategy.apply_overlap ----------------- *)

(* the label of the lookahead section (line 269 has it in Korean) *)
PreviewLabel == <<"p", "r", "e", "v", "i", "e", "w">>

LookaheadHeader == <<"\n", "\n", "[">> \o PreviewLabel \o <<"]", "\n">>

TruncationMarker == <<".", ".", ".">>

(* the fast path taken for the empty list only *)
FastPath_empty_only(chunks_in, overlap) == chunks_in = << >>

(* if not chunks or self.overlap == 0 *)
FastPath(chunks_in, overlap) == chunks_in = << >> \/ overlap = 0

(* a successor of any type gives a lookahead *)
NextIsText_any_type(chunks_in, i) == i < Len(chunks_in)

(* there is a next chunk and it is a text chunk *)
NextIsText(chunks_in, i) ==
    /\ i < Len(chunks_in)
    /\ chunks_in[i + 1].metadata.doc_type = "text"

(* what lines 258-269 add to the content of chunks_in[i] *)
Lookahead(chunks_in, i, overlap) ==
    IF NextIsText(chunks_in, i)
    THEN LET tokens == encode(chunks_in[i + 1].content) IN
         IF Len(tokens) > overlap
         THEN LookaheadHeader \o decode(Take(tokens, overlap)) \o TruncationMarker
         ELSE << >>
    ELSE << >>

(* the token count of before the lookahead is kept *)
OverlapMetadata_stale_tokens(chunk_metadata, content) ==
    DictUpdate(chunk_metadata, [has_overlap |-> TRUE])

OverlapMetadata(chunk_metadata, content) ==
    DictUpdate(chunk_metadata,
               [has_overlap |-> TRUE, chunk_tokens |-> count_tokens(content)])

OverlappedChunk(chunks_in, i, overlap) ==
    LET chunk == chunks_in[i] IN
    IF chunk.metadata.doc_type # "text" THEN chunk
    ELSE LET content == chunk.content \o Lookahead(chunks_in, i, overlap)
         IN DictUpdate(chunk, [content  |-> content,
                               metadata |-> OverlapMetadata(chunk.metadata, content)])

apply_overlap(chunks_in, overlap) ==
    IF FastPath(chunks_in, overlap) THEN chunks_in
    ELSE [i \in 1..Len(chunks_in) |-> OverlappedChunk(chunks_in, i, overlap)]

(* -------------------- ChunkingStrategy.process_from_json --------------- *)

(* the lists page_data.get(key, []) of all pages, one after the other *)
RECURSIVE ExtendAll(_, _)
ExtendAll(pages, key) ==
    IF pages = << >> THEN << >>
    ELSE Get(Head(pages), key, << >>) \o ExtendAll(Tail(pages), key)

process_from_json(data, chunk_size, overlap) ==
    LET institution == data.institution
        text_blocks == ExtendAll(Get(data, "texts", << >>), "text")
        tables == ExtendAll(Get(data, "tables", << >>), "content")
        images == ExtendAll(Get(data, "images", << >>), "description")
        text_chunks == chunk_pages(text_blocks, institution, chunk_size)
        table_chunks == [j \in 1..Len(tables) |-> make_table_to_chunk(tables[j])]
        image_chunks == [j \in 1..Len(images) |-> make_image_to_chunk(images[j])]
        all_chunks == text_chunks \o table_chunks \o image_chunks
    IN apply_overlap(all_chunks, overlap)


(* ------------------ the chunker as a state machine --------------------- *)

MaxBlocks == 3
MaxChunks == 3
MaxRecords == 2
MaxOverlap == 2

ChunkSizes == {3, MaxChunkSize}
Overlaps == 0..MaxOverlap
Institutions == {"hd"}

(* n sentences "a" in a row, each closed by ". " *)
RECURSIVE Sentences(_)
Sentences(n) == IF n = 0 THEN << >> ELSE <<"a", ".", " ">> \o Sentences(n - 1)

MaxSentences == 10

BlockTexts == {<<"a">>, <<"a", ".", " ", "b">>, <<".", " ">>, Sentences(MaxSentences)}

(* text blocks of pages 1 and 2, and a block that names no page *)
Blocks ==
    {[text |-> t, page_num |-> pn] : t \in BlockTexts, pn \in {1, 2}}
      \cup {[text |-> <<"a">>]}

(* the text blocks of a document *)
DocumentBlocks ==
    {[text |-> <<"a", ".", " ", "b">>, page_num |-> 1], [text |-> <<"a">>, page_num |-> 2]}

TableIds == {<<"T", "1">>, <<"T", "2">>}
Captions == {<< >>, <<"c">>}

(* table records as process_table makes them, and records whose content is *)
(* the natural-language description alone                                  *)
TableRecords ==
    {process_table(<<"d">>, table_id, 1, caption) :
        table_id \in TableIds, caption \in Captions}
      \cup {[table_id |-> table_id, page_num |-> 1, caption |-> caption,
             content |-> <<"d">>] :
              table_id \in TableIds, caption \in Captions}

ImageFilenames == {<<"i", ".", "p">>, <<"j", ".", "p">>}

(* the directory an image file is saved in *)
ImagePath(image_filename) == <<"d", "/">> \o image_filename

(* image records as generate_graph_description makes them, and the same    *)
(* with the file name and page number of the extracted image added         *)
ImageRecords ==
    {generate_graph_description(ImagePath(image_filename), 1, caption, <<"d">>) :
        caption \in Captions, image_filename \in ImageFilenames}
      \cup {DictUpdate(generate_graph_description(ImagePath(image_filename), 1,
                                                  caption, <<"d">>),
                       [image_filename |-> image_filename, page_num |-> 1]) :
              caption \in Captions, image_filename \in ImageFilenames}

(* chunks apply_overlap is given: text chunks of one and of three tokens,  *)
(* a table chunk and an image chunk                                        *)
OverlapChunks ==
    {TextChunk(1, <<"a">>, "hd", 1),
     TextChunk(2, <<"a", " ", "b", ".">>, "hd", 1),
     make_table_to_chunk(process_table(<<"d">>, <<"T", "1">>, 1, << >>)),
     make_image_to_chunk(generate_graph_description(ImagePath(<<"i", ".", "p">>), 1, <<"c">>, <<"d">>))}

DistinctBy(list, key) ==
    \A i, j \in 1..Len(list) :
        (i # j /\ key \in DOMAIN list[i] /\ key \in DOMAIN list[j])
            => list[i][key] # list[j][key]

(* a processed.json: the text blocks on one page entry, every table and    *)
(* every image on a page entry of its own; table ids and image paths are   *)
(* those of different tables and images                                    *)
Documents ==
    {[institution |-> inst,
      texts  |-> IF bl = << >> THEN << >> ELSE <<[page |-> 1, text |-> bl]>>,
      tables |-> [j \in 1..Len(tl) |-> [page |-> 1, content |-> <<tl[j]>>]],
      images |-> [j \in 1..Len(il) |-> [page |-> 1, description |-> <<il[j]>>]]] :
        inst \in Institutions,
        bl \in SeqsUpTo(DocumentBlocks, MaxRecords),
        tl \in {l \in SeqsUpTo({process_table(<<"d">>, table_id, 1, << >>) :
                                   table_id \in TableIds}, MaxRecords) :
                    DistinctBy(l, "table_id")},
        il \in {l \in SeqsUpTo({r \in ImageRecords : r.caption = << >>}, MaxRecords) :
                    DistinctBy(l, "image_path")}}

(* a dict without one of its keys *)
Without(d, key) == [k \in (DOMAIN d) \ {key} |-> d[k]]

(* table records that lack the table id or the page number *)
PartialTableRecords ==
    {Without(process_table(<<"d">>, <<"T", "1">>, 1, << >>), "table_id"),
     Without(process_table(<<"d">>, <<"T", "1">>, 1, << >>), "page_num")}

(* a processed.json whose block, table and image name no page, and the     *)
(* same without the institution, without the table id, without the text of *)
(* the block                                                               *)
PartialDocuments ==
    {LET block == [text |-> <<"a">>]
         table == Without(process_table(<<"d">>, <<"T", "1">>, 1, << >>), "page_num")
         image == generate_graph_description(ImagePath(<<"i", ".", "p">>), 1,
                                             << >>, <<"d">>)
         data == [institution |-> "hd",
                  texts  |-> <<[page |-> 1,
                                text |-> <<IF no_text THEN Without(block, "text")
                                           ELSE block>>]>>,
                  tables |-> <<[page |-> 1,
                                content |-> <<IF no_table_id
                                              THEN Without(table, "table_id")
                                              ELSE table>>]>>,
                  images |-> <<[page |-> 1, description |-> <<image>>]>>]
     IN IF no_institution THEN Without(data, "institution") ELSE data :
        no_institution \in BOOLEAN, no_table_id \in BOOLEAN, no_text \in BOOLEAN}

(* block["text"] of line 125 raises KeyError *)
chunk_pages_raises(text_blocks) ==
    \E i \in 1..Len(text_blocks) : "text" \notin DOMAIN text_blocks[i]

(* table_data['table_id'] of line 174 raises KeyError *)
make_table_to_chunk_raises(table_data) == "table_id" \notin DOMAIN table_data

(* data["institution"] of line 310 raises KeyError, or one of the calls does *)
process_from_json_raises(data) ==
    \/ "institution" \notin DOMAIN data
    \/ chunk_pages_raises(ExtendAll(Get(data, "texts", << >>), "text"))
    \/ LET tables == ExtendAll(Get(data, "tables", << >>), "content")
       IN \E j \in 1..Len(tables) : make_table_to_chunk_raises(tables[j])

ChunkerIdle(chunk_size, overlap) ==
    [op |-> "idle", phase |-> "idle", chunk_size |-> chunk_size, overlap |-> overlap,
     input |-> << >>, output |-> << >>]

ChunkerInit ==
    /\ EngineIdle
    /\ \E chunk_size \in ChunkSizes, overlap \in Overlaps :
          call = ChunkerIdle(chunk_size, overlap)

ChunkPages ==
    /\ call.phase = "idle"
    /\ \E text_blocks \in SeqsUpTo(Blocks, MaxBlocks), institution \in Institutions :
          call' = [call EXCEPT !.op = "chunk_pages", !.phase = "returned",
                               !.input = text_blocks,
                               !.output = chunk_pages(text_blocks, institution,
                                                      call.chunk_size)]
    /\ EngineUnchanged

MakeTableToChunk ==
    /\ call.phase = "idle"
    /\ \E table_data \in TableRecords \cup PartialTableRecords :
          call' = IF make_table_to_chunk_raises(table_data)
                  THEN [call EXCEPT !.op = "make_table_to_chunk", !.phase = "raised",
                                    !.input = table_data, !.output = "KeyError"]
                  ELSE [call EXCEPT !.op = "make_table_to_chunk", !.phase = "returned",
                                    !.input = table_data,
                                    !.output = make_table_to_chunk(table_data)]
    /\ EngineUnchanged

MakeImageToChunk ==
    /\ call.phase = "idle"
    /\ \E image_data \in ImageRecords :
          call' = [call EXCEPT !.op = "make_image_to_chunk", !.phase = "returned",
                               !.input = image_data,
                               !.output = make_image_to_chunk(image_data)]
    /\ EngineUnchanged

ApplyOverlap ==
    /\ call.phase = "idle"
    /\ \E chunks_in \in SeqsUpTo(OverlapChunks, MaxChunks) :
          call' = [call EXCEPT !.op = "apply_overlap", !.phase = "returned",
                               !.input = chunks_in,
                               !.output = apply_overlap(chunks_in, call.overlap)]
    /\ EngineUnchanged

ProcessFromJson ==
    /\ call.phase = "idle"
    /\ \E data \in Documents \cup PartialDocuments :
          call' = IF process_from_json_raises(data)
                  THEN [call EXCEPT !.op = "process_from_json", !.phase = "raised",
                                    !.input = data, !.output = "KeyError"]
                  ELSE [call EXCEPT !.op = "process_from_json", !.phase = "returned",
                                    !.input = data,
                                    !.output = process_from_json(data, call.chunk_size,
                                                                 call.overlap)]
    /\ EngineUnchanged

(* the caller takes the result or the exception; the chunker keeps its     *)
(* chunk_size and overlap                                                  *)
ChunkerReturn ==
    /\ call.phase \in {"returned", "raised"}
    /\ call.op \in {"chunk_pages", "make_table_to_chunk", "make_image_to_chunk",
                    "apply_overlap", "process_from_json"}
    /\ call' = ChunkerIdle(call.chunk_size, call.overlap)
    /\ EngineUnchanged

ChunkerNext ==
    \/ ChunkPages
    \/ MakeTableToChunk
    \/ MakeImageToChunk
    \/ ApplyOverlap
    \/ ProcessFromJson
    \/ ChunkerReturn

SpecChunker == ChunkerInit /\ [][ChunkerNext]_vars

ChunkerReturned(op) == call.op = op /\ call.phase = "returned"


(* ---------------------- properties of apply_overlap -------------------- *)

IsTextChunk(chunk) == chunk.metadata.doc_type = "text"

(* the lookahead section drawn from the content of a successor *)
LookaheadOf(next_content, overlap) ==
    LookaheadHeader \o decode(Take(encode(next_content), overlap)) \o TruncationMarker

(* C11: with overlap > 0, every text chunk whose successor in the list is  *)
(* a text chunk comes back with its content followed by the lookahead      *)
(* section holding the first overlap tokens of the successor and the       *)
(* truncation marker, however many tokens the successor has.               *)
C11_LookaheadForEveryTextPair ==
    (ChunkerReturned("apply_overlap") /\ call.overlap > 0)
        => \A i \in 1..(Len(call.input) - 1) :
              (IsTextChunk(call.input[i]) /\ IsTextChunk(call.input[i + 1]))
                => call.output[i].content
                     = call.input[i].content
                         \o LookaheadOf(call.input[i + 1].content, call.overlap)

(* C12: apply_overlap returns every table and image chunk as it was given, *)
(* at the same position, and a text chunk whose successor is a table or    *)
(* image chunk keeps its content: no lookahead is drawn from them.         *)
C12_TableImageUntouched ==
    ChunkerReturned("apply_overlap")
        => /\ Len(call.output) = Len(call.input)
           /\ \A i \in 1..Len(call.input) :
                /\ ~IsTextChunk(call.input[i]) => call.output[i] = call.input[i]
                /\ (/\ IsTextChunk(call.input[i])
                    /\ i < Len(call.input)
                    /\ ~IsTextChunk(call.input[i + 1]))
                     => call.output[i].content = call.input[i].content

(* overlap > 0: a text chunk before a table chunk, a table chunk before a  *)
(* text chunk, and the text chunk before the text chunk got its lookahead  *)
C12_Witness ==
    /\ ChunkerReturned("apply_overlap")
    /\ call.overlap > 0
    /\ Len(call.input) = 3
    /\ IsTextChunk(call.input[1])
    /\ IsTextChunk(call.input[2])
    /\ call.input[3].metadata.doc_type = "table"
    /\ call.output[1].content # call.input[1].content
    /\ call.output[3] = call.input[3]

(* C13: with overlap = 0, or with the empty list, apply_overlap returns    *)
(* its input: the same chunks in the same order with the same content and  *)
(* metadata.                                                               *)
C13_FastPathIdentity ==
    (ChunkerReturned("apply_overlap") /\ (call.overlap = 0 \/ call.input = << >>))
        => call.output = call.input

(* overlap = 0 and two text chunks in a row *)
C13_Witness ==
    /\ ChunkerReturned("apply_overlap")
    /\ call.overlap = 0
    /\ Len(call.input) >= 2
    /\ IsTextChunk(call.input[1])
    /\ IsTextChunk(call.input[2])
    /\ call.output = call.input


(* C14: every chunk the pipeline returns (chunk_pages, make_table_to_chunk *)
(* and make_image_to_chunk, then apply_overlap) carries in                 *)
(* metadata.chunk_tokens the token count of its final content, the text    *)
(* chunks extended by a lookahead section included.                        *)
C14_ChunkTokensOfFinalContent ==
    (ChunkerReturned("process_from_json") \/ ChunkerReturned("apply_overlap"))
        => \A i \in 1..Len(call.output) :
              call.output[i].metadata.chunk_tokens = count_tokens(call.output[i].content)

(* a document with a table and an image whose first text chunk got a       *)
(* lookahead section                                                       *)
C14_Witness ==
    /\ ChunkerReturned("process_from_json")
    /\ call.overlap > 0
    /\ Len(call.output) >= 4
    /\ IsTextChunk(call.output[1])
    /\ Len(call.output[1].content) > Len(LookaheadHeader)
    /\ \E i \in 1..Len(call.output) : call.output[i].metadata.doc_type = "table"
    /\ \E i \in 1..Len(call.output) : call.output[i].metadata.doc_type = "image"

(* ----------------------- properties of chunk_pages --------------------- *)

PageOf(block) == IF "page_num" \in DOMAIN block THEN block.page_num ELSE 0

(* the texts of the blocks of one page, in the order given, one per line *)
PageText(text_blocks, page_num) ==
    LET OnPage(block) == PageOf(block) = page_num
        blocks == SelectSeq(text_blocks, OnPage)
    IN Join(<<"\n">>, [j \in 1..Len(blocks) |-> blocks[j].text])

ContentsOfPage(chunk_list, page_num) ==
    LET OnPage(chunk) == chunk.metadata.page = page_num
        on_page == SelectSeq(chunk_list, OnPage)
    IN [j \in 1..Len(on_page) |-> on_page[j].content]

(* chunk_ and the four decimal digits of i, for i below 10000 *)
NumberedId(i) ==
    <<"c", "h", "u", "n", "k", "_">>
      \o [d \in 1..4 |->
            LET digit == CASE d = 1 -> i \div 1000
                           [] d = 2 -> (i \div 100) % 10
                           [] d = 3 -> (i \div 10) % 10
                           [] d = 4 -> i % 10
            IN CASE digit = 0 -> "0" [] digit = 1 -> "1" [] digit = 2 -> "2"
                 [] digit = 3 -> "3" [] digit = 4 -> "4" [] digit = 5 -> "5"
                 [] digit = 6 -> "6" [] digit = 7 -> "7" [] digit = 8 -> "8"
                 [] digit = 9 -> "9"]

(* C17: chunk_pages takes the pages in ascending page number whatever the  *)
(* order of the blocks, the chunks of a page are the pieces of that page's *)
(* text alone, and the i-th chunk of the output has the id chunk_ followed *)
(* by i zero-padded to width 4, one counter running over all pages.        *)
C17_PagesAscendingOneCounter ==
    ChunkerReturned("chunk_pages")
        => /\ \A i \in 1..Len(call.output) :
                /\ call.output[i].chunk_id = NumberedId(i)
                /\ \E b \in 1..Len(call.input) :
                      PageOf(call.input[b]) = call.output[i].metadata.page
           /\ \A i, j \in 1..Len(call.output) :
                /\ i < j => call.output[i].metadata.page <= call.output[j].metadata.page
                /\ i # j => call.output[i].chunk_id # call.output[j].chunk_id
           /\ \A b \in 1..Len(call.input) :
                ContentsOfPage(call.output, PageOf(call.input[b]))
                  = split_text_by_tokens(PageText(call.input, PageOf(call.input[b])),
                                         call.chunk_size)

(* blocks given page 2 first, then page 1, then page 2 again: ten chunks   *)
(* or more, the chunks of page 1 first                                     *)
C17_Witness ==
    /\ ChunkerReturned("chunk_pages")
    /\ Len(call.input) = 3
    /\ PageOf(call.input[1]) = 2
    /\ PageOf(call.input[2]) = 1
    /\ PageOf(call.input[3]) = 2
    /\ Len(call.output) >= 10
    /\ call.output[1].metadata.page = 1
    /\ call.output[Len(call.output)].metadata.page = 2

(* C18: the chunk ids of the chunks process_from_json returns for one      *)
(* document are pairwise distinct.                                         *)
C18_ChunkIdsPairwiseDistinct ==
    ChunkerReturned("process_from_json")
        => \A i, j \in 1..Len(call.output) :
              i # j => call.output[i].chunk_id # call.output[j].chunk_id


(* ------------- properties of the table and image chunks ---------------- *)

HasFilename(image_data) ==
    /\ "image_filename" \in DOMAIN image_data
    /\ image_data.image_filename # << >>

CountOfType(chunk_list, doc_type) ==
    Cardinality({i \in 1..Len(chunk_list) : chunk_list[i].metadata.doc_type = doc_type})

RecordsIn(pages, key) ==
    LET Count(j) == IF key \in DOMAIN pages[j] THEN Len(pages[j][key]) ELSE 0
        RECURSIVE Sum(_)
        Sum(j) == IF j = 0 THEN 0 ELSE Count(j) + Sum(j - 1)
    IN Sum(Len(pages))

(* C19: a table record gives one chunk of doc_type table with the id       *)
(* chunk_table_<table_id>; an image record gives one chunk of doc_type     *)
(* image with the id chunk_image_<file name, every '.' as '_'>, or         *)
(* chunk_image_unknown without a file name; a document gives one chunk per *)
(* table and per image record; the same record gives the same id again.    *)
C19_TableImageIds ==
    /\ ChunkerReturned("make_table_to_chunk")
         => /\ call.output.metadata.doc_type = "table"
            /\ call.output.chunk_id
                 = <<"c", "h", "u", "n", "k", "_", "t", "a", "b", "l", "e", "_">>
                     \o call.input.table_id
            /\ make_table_to_chunk(call.input).chunk_id = call.output.chunk_id
    /\ ChunkerReturned("make_image_to_chunk")
         => /\ call.output.metadata.doc_type = "image"
            /\ LET id == SubSeq(call.output.chunk_id, 13, Len(call.output.chunk_id)) IN
               /\ SubSeq(call.output.chunk_id, 1, 12)
                    = <<"c", "h", "u", "n", "k", "_", "i", "m", "a", "g", "e", "_">>
               /\ HasFilename(call.input)
                    => /\ Len(id) = Len(call.input.image_filename)
                       /\ \A c \in 1..Len(id) :
                             id[c] = IF call.input.image_filename[c] = "." THEN "_"
                                     ELSE call.input.image_filename[c]
               /\ ~HasFilename(call.input)
                    => id = <<"u", "n", "k", "n", "o", "w", "n">>
            /\ make_image_to_chunk(call.input).chunk_id = call.output.chunk_id
    /\ ChunkerReturned("process_from_json")
         => /\ CountOfType(call.output, "table") = RecordsIn(call.input.tables, "content")
            /\ CountOfType(call.output, "image")
                 = RecordsIn(call.input.images, "description")

(* the chunk of an image record whose file name has a '.' *)
C19_Witness ==
    /\ ChunkerReturned("make_image_to_chunk")
    /\ HasFilename(call.input)
    /\ "." \in Range(call.input.image_filename)
    /\ "_" \in Range(call.output.chunk_id)

(* the bracketed caption line, a blank line, then the description *)
CaptionLineThen(caption, description) ==
    <<"[">> \o caption \o <<"]">> \o <<"\n", "\n">> \o description

(* the description a table record carries: its content, without the       *)
(* caption line when the content starts with it                            *)
DescriptionOf(table_data) ==
    LET line == <<"[">> \o table_data.caption \o <<"]">> \o <<"\n", "\n">>
        content == table_data.content
    IN IF /\ table_data.caption # << >>
          /\ Len(content) >= Len(line)
          /\ SubSeq(content, 1, Len(line)) = line
       THEN SubSeq(content, Len(line) + 1, Len(content))
       ELSE content

ChunkerRaised(op) == call.op = op /\ call.phase = "raised"

TableRecordsOf(data) ==
    IF "tables" \in DOMAIN data THEN ExtendAll(data.tables, "content") ELSE << >>

(* C21: chunk construction does not fail on partial upstream data: a call  *)
(* raises only when a table record lacks its table id; a chunk made from a *)
(* block, table or image without page number has page 0, and a table or    *)
(* image chunk made from a record without institution has "unknown".       *)
C21_OnlyTableIdIsMandatory ==
    /\ ChunkerRaised("make_table_to_chunk") => "table_id" \notin DOMAIN call.input
    /\ ChunkerRaised("process_from_json")
         => \E j \in 1..Len(TableRecordsOf(call.input)) :
               "table_id" \notin DOMAIN TableRecordsOf(call.input)[j]
    /\ ~ChunkerRaised("chunk_pages")
    /\ ~ChunkerRaised("make_image_to_chunk")
    /\ ~ChunkerRaised("apply_overlap")
    /\ (ChunkerReturned("make_table_to_chunk") \/ ChunkerReturned("make_image_to_chunk"))
         => /\ "page_num" \notin DOMAIN call.input => call.output.metadata.page = 0
            /\ "institution" \notin DOMAIN call.input
                 => call.output.metadata.institution = "unknown"
    /\ (ChunkerReturned("process_from_json") /\ call.input \in PartialDocuments)
         => /\ Len(call.output) = 3
            /\ \A i \in 1..3 : call.output[i].metadata.page = 0


(* C29: after apply_overlap with overlap > 0 a chunk has has_overlap true  *)
(* only if its content was extended with a lookahead section: the last    *)
(* text chunk, a text chunk before a table or image chunk and a text chunk *)
(* whose successor is too short for a preview do not have the flag.        *)
C29_FlagOnlyWithLookahead ==
    (ChunkerReturned("apply_overlap") /\ call.overlap > 0)
        => \A i \in 1..Len(call.output) :
              (/\ "has_overlap" \in DOMAIN call.output[i].metadata
               /\ call.output[i].metadata.has_overlap)
                 => call.output[i].content # call.input[i].content


(* -------------------- EmbeddingManager.embed_chunks -------------------- *)

(* batch_embeddings.append(None): a slot still to be filled *)
NoneSlot == -1

(* the vectors client.embeddings.create may give for one text of a batch:  *)
(* the hosted model does not promise the same vector for the same text,    *)
(* and it never answers with the zero vector                               *)
UpstreamVectors(text) == {EmbedModel(text), EmbedModel(text) + 2}

(* cache[text_hash] = embedding *)
CacheStore(cache, text_hash, embedding) ==
    [h \in (DOMAIN cache) \cup {text_hash} |->
        IF h = text_hash THEN embedding ELSE cache[h]]

(* lines 173-186: the slots, the texts to ask for and their positions in   *)
(* the batch (0-based), after the scan of batch_texts[j..]                 *)
RECURSIVE ScanBatch(_, _, _, _)
ScanBatch(batch_texts, j, cache, scan) ==
    IF j >= Len(batch_texts) THEN scan
    ELSE LET text == batch_texts[j + 1]
             text_hash == get_text_hash(text)
         IN IF text_hash \in DOMAIN cache
            THEN ScanBatch(batch_texts, j + 1, cache,
                   [scan EXCEPT !.batch_embeddings = Append(@, cache[text_hash])])
            ELSE ScanBatch(batch_texts, j + 1, cache,
                   [batch_embeddings |-> Append(scan.batch_embeddings, NoneSlot),
                    texts_to_embed   |-> Append(scan.texts_to_embed, text),
                    text_indices     |-> Append(scan.text_indices, j)])

(* every vector goes to the slot of its number in the response *)
SlotOf_response_order(text_indices, idx) == idx

(* original_idx = text_indices[idx] *)
SlotOf(text_indices, idx) == text_indices[idx + 1]

(* lines 197-204: the slots, the cache and the cache writes after the      *)
(* response items idx.. have been taken                                    *)
RECURSIVE TakeResponse(_, _, _, _)
TakeResponse(response, idx, scan, st) ==
    IF idx >= Len(response) THEN st
    ELSE LET embedding == response[idx + 1]
             original_idx == SlotOf(scan.text_indices, idx)
             text_hash == get_text_hash(scan.texts_to_embed[idx + 1])
         IN TakeResponse(response, idx + 1, scan,
              [batch_embeddings |-> [st.batch_embeddings EXCEPT ![original_idx + 1] = embedding],
               cache  |-> CacheStore(st.cache, text_hash, embedding),
               writes |-> Append(st.writes,
                                 [key |-> text_hash, value |-> embedding,
                                  had |-> text_hash \in DOMAIN st.cache,
                                  old |-> IF text_hash \in DOMAIN st.cache
                                          THEN st.cache[text_hash] ELSE NoneSlot])])

(* the slots the failed call leaves as they are *)
FillFailed_left_empty(batch_embeddings, text_indices) == batch_embeddings

(* lines 208-212: every slot that is still None gets np.zeros(dimension) *)
FillFailed(batch_embeddings, text_indices) ==
    [p \in 1..Len(batch_embeddings) |->
        IF (\E q \in 1..Len(text_indices) : text_indices[q] + 1 = p)
             /\ batch_embeddings[p] = NoneSlot
        THEN ZeroVector ELSE batch_embeddings[p]]

(* the zero vectors of the failed call are cached for its texts *)
CacheAfterFailure_zero_cached(cache, texts_to_embed) ==
    [h \in (DOMAIN cache) \cup {get_text_hash(texts_to_embed[q]) :
                                   q \in 1..Len(texts_to_embed)} |->
        IF h \in DOMAIN cache THEN cache[h] ELSE ZeroVector]

(* the except branch of lines 208-212 writes nothing into the cache *)
CacheAfterFailure(cache, texts_to_embed) == cache

(* the responses the upstream call can give for texts_to_embed *)
Responses(texts_to_embed) ==
    {r \in [1..Len(texts_to_embed) -> UNION {UpstreamVectors(texts_to_embed[q]) :
                                               q \in 1..Len(texts_to_embed)}] :
        \A q \in 1..Len(texts_to_embed) : r[q] \in UpstreamVectors(texts_to_embed[q])}

(* every outcome of one batch: no call when nothing is missing, else one   *)
(* call that fails or gives a response                                     *)
BatchOutcomes(batch_texts, cache) ==
    LET scan == ScanBatch(batch_texts, 0, cache,
                          [batch_embeddings |-> << >>, texts_to_embed |-> << >>,
                           text_indices |-> << >>])
    IN IF scan.texts_to_embed = << >>
       THEN {[batch_embeddings |-> scan.batch_embeddings, cache |-> cache,
              writes |-> << >>, requests |-> << >>]}
       ELSE {[batch_embeddings |-> FillFailed(scan.batch_embeddings, scan.text_indices),
              cache    |-> CacheAfterFailure(cache, scan.texts_to_embed),
              writes   |-> << >>,
              requests |-> <<[input |-> scan.texts_to_embed, failed |-> TRUE]>>]}
            \cup
            {LET st == TakeResponse(response, 0, scan,
                         [batch_embeddings |-> scan.batch_embeddings,
                          cache |-> cache, writes |-> << >>])
             IN [batch_embeddings |-> st.batch_embeddings, cache |-> st.cache,
                 writes   |-> st.writes,
                 requests |-> <<[input |-> scan.texts_to_embed, failed |-> FALSE]>>] :
               response \in Responses(scan.texts_to_embed)}

(* the outcomes of the batch loop from position i (0-based) on, acc being  *)
(* what the batches before have left                                       *)
RECURSIVE EmbedLoop(_, _, _, _)
EmbedLoop(chunks_in, i, batch_size, acc) ==
    IF i >= Len(chunks_in) THEN {acc}
    ELSE LET batch == SubSeq(chunks_in, i + 1, Min(i + batch_size, Len(chunks_in)))
             batch_texts == [q \in 1..Len(batch) |-> batch[q].content]
             batch_chunk_ids == [q \in 1..Len(batch) |-> batch[q].chunk_id]
         IN UNION {EmbedLoop(chunks_in, i + batch_size, batch_size,
                     [embeddings |-> acc.embeddings \o o.batch_embeddings,
                      chunk_ids  |-> acc.chunk_ids \o batch_chunk_ids,
                      cache      |-> o.cache,
                      writes     |-> acc.writes \o o.writes,
                      requests   |-> acc.requests \o o.requests,
                      batches    |-> Append(acc.batches,
                                            [texts |-> batch_texts,
                                             requests |-> o.requests,
                                             writes |-> o.writes])]) :
                   o \in BatchOutcomes(batch_texts, acc.cache)}

(* every outcome of embed_chunks(chunks, batch_size) with the cache given: *)
(* the embeddings and chunk ids returned, the cache left, and what was     *)
(* sent upstream and written into the cache on the way                     *)
embed_chunks(chunks_in, batch_size, cache) ==
    EmbedLoop(chunks_in, 0, batch_size,
              [embeddings |-> << >>, chunk_ids |-> << >>, cache |-> cache,
               writes |-> << >>, requests |-> << >>, batches |-> << >>])


(* ---------------- the EmbeddingManager as a state machine -------------- *)

MaxEmbedChunks == 3
MaxBatchSize == 2

EmbedContents == {<< >>, <<"a">>}

(* the chunks of a chunk file; two chunks may have the same chunk_id       *)
FileChunks ==
    {[chunk_id |-> id, content |-> content, metadata |-> [doc_type |-> "text"]] :
        id \in {"chunk_0001", "chunk_image_unknown"}, content \in EmbedContents}

(* the search engine plays no part *)
EmbedPinned ==
    /\ faiss_index = <<0>>
    /\ chunks = <<ChunkAt(1, <<"a">>)>>
    /\ metadata = <<ChunkAt(1, <<"a">>)>>
    /\ embedding_manager = TRUE
    /\ conversation_history = << >>

EmbedIdle ==
    [op |-> "idle", phase |-> "idle", input |-> << >>, batch_size |-> 0,
     cache_before |-> << >>, embeddings |-> << >>, chunk_ids |-> << >>,
     requests |-> << >>, writes |-> << >>, batches |-> << >>]

(* __init__: the cache is what load_embedding_cache finds, nothing or the  *)
(* embeddings of an earlier run                                            *)
EmbedInit ==
    /\ EmbedPinned
    /\ embedding_cache \in {<< >>, CacheStore(<< >>, get_text_hash(<<"a">>),
                                             EmbedModel(<<"a">>))}
    /\ call = EmbedIdle

EmbedText ==
    /\ call.phase = "idle"
    /\ \E text \in EmbedContents :
         \E api_ok \in IF get_text_hash(text) \in DOMAIN embedding_cache
                       THEN {TRUE} ELSE BOOLEAN :
            LET e == embed_text(text, api_ok) IN
            /\ embedding_cache' = e.cache
            /\ call' = [EmbedIdle EXCEPT
                          !.op = "embed_text", !.phase = "returned", !.input = text,
                          !.cache_before = embedding_cache,
                          !.embeddings = <<e.embedding>>,
                          !.requests = IF get_text_hash(text) \in DOMAIN embedding_cache
                                       THEN << >>
                                       ELSE <<[input |-> <<text>>, failed |-> ~api_ok]>>]
    /\ UNCHANGED <<faiss_index, metadata, chunks, embedding_manager, conversation_history>>

EmbedChunks ==
    /\ call.phase = "idle"
    /\ \E chunks_in \in SeqsUpTo(FileChunks, MaxEmbedChunks),
          batch_size \in 1..MaxBatchSize :
         \E o \in embed_chunks(chunks_in, batch_size, embedding_cache) :
            /\ embedding_cache' = o.cache
            /\ call' = [EmbedIdle EXCEPT
                          !.op = "embed_chunks", !.phase = "returned",
                          !.input = chunks_in, !.batch_size = batch_size,
                          !.cache_before = embedding_cache,
                          !.embeddings = o.embeddings, !.chunk_ids = o.chunk_ids,
                          !.requests = o.requests, !.writes = o.writes,
                          !.batches = o.batches]
    /\ UNCHANGED <<faiss_index, metadata, chunks, embedding_manager, conversation_history>>

(* the caller takes the result; the cache stays *)
EmbedReturn ==
    /\ call.phase = "returned"
    /\ call.op \in {"embed_text", "embed_chunks"}
    /\ call' = EmbedIdle
    /\ UNCHANGED <<faiss_index, metadata, chunks, embedding_manager, conversation_history, embedding_cache>>

EmbedNext ==
    \/ EmbedText
    \/ EmbedChunks
    \/ EmbedReturn

SpecEmbed == EmbedInit /\ [][EmbedNext]_vars


(* --------------------- properties of embed_chunks ---------------------- *)

EmbedReturned(op) == call.op = op /\ call.phase = "returned"

(* the number of batches of batch_size that n chunks make *)
BatchCount(n, batch_size) == (n + batch_size - 1) \div batch_size

(* position in the input (1-based) of the p-th text of batch b *)
InputPos(b, p) == (b - 1) * call.batch_size + p

(* the text has a vector when batch b is scanned: it had one before the    *)
(* run, or a batch before b got one for it                                 *)
CachedAtBatch(b, text) ==
    \/ get_text_hash(text) \in DOMAIN call.cache_before
    \/ \E e \in 1..(b - 1) :
          /\ call.batches[e].requests # << >>
          /\ ~call.batches[e].requests[1].failed
          /\ text \in Range(call.batches[e].requests[1].input)

(* the texts of batch b that have no vector yet, in their order *)
Missed(b) ==
    LET IsMiss(text) == ~CachedAtBatch(b, text)
    IN SelectSeq(call.batches[b].texts, IsMiss)

(* the positions in batch b (1-based) of its missed texts, ascending *)
RECURSIVE MissedPositionsFrom(_, _)
MissedPositionsFrom(b, p) ==
    IF p > Len(call.batches[b].texts) THEN << >>
    ELSE IF CachedAtBatch(b, call.batches[b].texts[p])
         THEN MissedPositionsFrom(b, p + 1)
         ELSE <<p>> \o MissedPositionsFrom(b, p + 1)

(* C22: embed_chunks cuts the input into consecutive batches of batch_size;*)
(* a batch with a cache miss makes one upstream call carrying its missed   *)
(* texts in their order, a batch without a miss makes none; the q-th       *)
(* vector of the response is returned at the position of the q-th missed   *)
(* text.                                                                   *)
C22_OneCallPerBatchWithMisses ==
    EmbedReturned("embed_chunks")
        => /\ Len(call.batches) = BatchCount(Len(call.input), call.batch_size)
           /\ \A b \in 1..Len(call.batches) :
                /\ Len(call.batches[b].texts) <= call.batch_size
                /\ b < Len(call.batches) => Len(call.batches[b].texts) = call.batch_size
                /\ \A p \in 1..Len(call.batches[b].texts) :
                      call.batches[b].texts[p] = call.input[InputPos(b, p)].content
                /\ Len(call.batches[b].requests) = IF Missed(b) = << >> THEN 0 ELSE 1
                /\ Missed(b) # << >> => call.batches[b].requests[1].input = Missed(b)
                /\ (Missed(b) # << >> /\ ~call.batches[b].requests[1].failed)
                     => LET positions == MissedPositionsFrom(b, 1) IN
                        /\ Len(call.batches[b].writes) = Len(positions)
                        /\ \A q \in 1..Len(positions) :
                              /\ call.embeddings[InputPos(b, positions[q])]
                                   = call.batches[b].writes[q].value
                              /\ call.embeddings[InputPos(b, positions[q])]
                                   \in UpstreamVectors(call.batches[b].texts[positions[q]])

(* two batches: the first has a cached text before a missed one and one    *)
(* call that succeeds, the second has every text cached and no call        *)
C22_Witness ==
    /\ EmbedReturned("embed_chunks")
    /\ Len(call.batches) = 2
    /\ Len(call.batches[1].texts) = 2
    /\ get_text_hash(call.batches[1].texts[1]) \in DOMAIN call.cache_before
    /\ get_text_hash(call.batches[1].texts[2]) \notin DOMAIN call.cache_before
    /\ call.batches[1].requests # << >>
    /\ ~call.batches[1].requests[1].failed
    /\ call.batches[2].requests = << >>

(* C23: when the upstream call of a batch fails, the missed slots of that  *)
(* batch get the zero vector, its cached slots keep their cached vectors,  *)
(* the batches after it are still processed, and embed_chunks returns one  *)
(* vector per input chunk with no slot left empty.                         *)
C23_FailedBatchZeroFilled ==
    EmbedReturned("embed_chunks")
        => /\ Len(call.embeddings) = Len(call.input)
           /\ Len(call.chunk_ids) = Len(call.input)
           /\ \A i \in 1..Len(call.embeddings) : call.embeddings[i] # NoneSlot
           /\ Len(call.batches) = BatchCount(Len(call.input), call.batch_size)
           /\ \A b \in 1..Len(call.batches) :
                (call.batches[b].requests # << >> /\ call.batches[b].requests[1].failed)
                  => \A p \in 1..Len(call.batches[b].texts) :
                        call.embeddings[InputPos(b, p)]
                          = IF CachedAtBatch(b, call.batches[b].texts[p])
                            THEN embedding_cache[get_text_hash(call.batches[b].texts[p])]
                            ELSE ZeroVector

(* the call of the first batch failed, that batch had a cached text too,   *)
(* and the call of the second batch succeeded                              *)
C23_Witness ==
    /\ EmbedReturned("embed_chunks")
    /\ Len(call.batches) = 2
    /\ call.batches[1].requests # << >>
    /\ call.batches[1].requests[1].failed
    /\ \E p \in 1..Len(call.batches[1].texts) :
          get_text_hash(call.batches[1].texts[p]) \in DOMAIN call.cache_before
    /\ call.batches[2].requests # << >>
    /\ ~call.batches[2].requests[1].failed

(* C24: the embedding cache is append-only: a key that has a value keeps   *)
(* it, over a call and within one run of embed_chunks, also when the same  *)
(* uncached text occurs more than once in the input.                       *)
C24_CacheAppendOnly ==
    (EmbedReturned("embed_chunks") \/ EmbedReturned("embed_text"))
        => /\ \A h \in DOMAIN call.cache_before :
                /\ h \in DOMAIN embedding_cache
                /\ embedding_cache[h] = call.cache_before[h]
           /\ \A q \in 1..Len(call.writes) :
                call.writes[q].had => call.writes[q].value = call.writes[q].old

(* C28: the zero vector of a failed call is never cached: no cache value   *)
(* is the zero vector, the texts of a failed call have no cache entry      *)
(* unless they had one before or a later call of the run succeeded for     *)
(* them, and every text without a cache entry is asked for upstream.       *)
C28_ZeroVectorNeverCached ==
    /\ \A h \in DOMAIN embedding_cache : embedding_cache[h] # ZeroVector
    /\ (EmbedReturned("embed_chunks") \/ EmbedReturned("embed_text"))
         => /\ \A r \in 1..Len(call.requests) :
                 call.requests[r].failed
                   => \A q \in 1..Len(call.requests[r].input) :
                        \/ get_text_hash(call.requests[r].input[q])
                             \notin DOMAIN embedding_cache
                        \/ \E r2 \in (r + 1)..Len(call.requests) :
                              /\ ~call.requests[r2].failed
                              /\ call.requests[r].input[q]
                                   \in Range(call.requests[r2].input)
            /\ \A text \in (IF call.op = "embed_text" THEN {call.input}
                            ELSE {call.input[i].content : i \in 1..Len(call.input)}) :
                 get_text_hash(text) \notin DOMAIN call.cache_before
                   => \E r \in 1..Len(call.requests) :
                         text \in Range(call.requests[r].input)

(* an embed_chunks run whose only upstream call failed for a text that was *)
(* not cached: the zero vector is returned and the text has no cache entry *)
C28_Witness ==
    /\ EmbedReturned("embed_chunks")
    /\ Len(call.requests) = 1
    /\ call.requests[1].failed
    /\ ZeroVector \in Range(call.embeddings)
    /\ \A q \in 1..Len(call.requests[1].input) :
          get_text_hash(call.requests[1].input[q]) \notin DOMAIN embedding_cache


(* --------------- EmbeddingManager.build_index_from_chunks -------------- *)

(* batch_size=100 of line 421 *)
BuildBatchSize == 100

(* a file that is not there, and a file with its content *)
NoFile == [exists |-> FALSE, data |-> << >>]

FileOf(data) == [exists |-> TRUE, data |-> data]

(* chunk_dict = {chunk['chunk_id']: chunk for chunk in chunks}[chunk_id]:  *)
(* the last chunk of that id                                               *)
ChunkDictGet(chunks_in, chunk_id) ==
    LET at == {i \in 1..Len(chunks_in) : chunks_in[i].chunk_id = chunk_id}
    IN IF at = {} THEN << >>
       ELSE chunks_in[CHOOSE i \in at : \A j \in at : j <= i]

(* the metadata array save_metadata builds (lines 303-311) *)
MetadataArray(chunks_in, chunk_ids) ==
    [i \in 1..Len(chunk_ids) |->
        LET chunk == ChunkDictGet(chunks_in, chunk_ids[i])
        IN [index    |-> i - 1,
            chunk_id |-> chunk_ids[i],
            content  |-> Get(chunk, "content", << >>),
            metadata |-> Get(chunk, "metadata", << >>)]]

(* save_index: the write succeeds, or it fails and the exception is caught *)
(* and printed (lines 254-258); the file stays as it was                   *)
save_index(index, index_file, written) ==
    IF written THEN FileOf(index) ELSE index_file

(* save_metadata: the write succeeds, or it fails and the exception is     *)
(* caught and printed (lines 313-319)                                      *)
save_metadata(chunks_in, chunk_ids, metadata_file, written) ==
    IF written THEN FileOf(MetadataArray(chunks_in, chunk_ids)) ELSE metadata_file

(* every outcome of build_index_from_chunks on the chunk file chunks_in:   *)
(* create_faiss_index raises on an empty list of embeddings (np.array([])  *)
(* has one axis, index.add needs two); else the index and what             *)
(* load_metadata reads back are returned, whatever the two writes did      *)
build_index_from_chunks(chunks_in, cache, index_file, metadata_file) ==
    UNION {
        IF o.embeddings = << >>
        THEN {[raised |-> TRUE, index |-> << >>, metadata_loaded |-> FALSE,
               metadata |-> << >>, cache |-> o.cache,
               index_file |-> index_file, metadata_file |-> metadata_file,
               index_written |-> FALSE, metadata_written |-> FALSE]}
        ELSE {LET new_index_file == save_index(o.embeddings, index_file, iw)
                  new_metadata_file == save_metadata(chunks_in, o.chunk_ids,
                                                     metadata_file, mw)
              IN [raised |-> FALSE, index |-> o.embeddings,
                  metadata_loaded |-> new_metadata_file.exists,
                  metadata |-> new_metadata_file.data,
                  cache |-> o.cache,
                  index_file |-> new_index_file,
                  metadata_file |-> new_metadata_file,
                  index_written |-> iw, metadata_written |-> mw] :
                iw \in BOOLEAN, mw \in BOOLEAN}
        : o \in embed_chunks(chunks_in, BuildBatchSize, cache)}

(* ------------------- the index build as a state machine ---------------- *)

MaxBuildChunks == 2
MaxBuilds == 1

(* the chunks of a chunk file: two images without file name have the same  *)
(* chunk id                                                                *)
BuildChunks ==
    {[chunk_id |-> "chunk_0001", content |-> <<"a">>,
      metadata |-> [doc_type |-> "text"]],
     [chunk_id |-> "chunk_image_unknown", content |-> <<"a">>,
      metadata |-> [doc_type |-> "image"]],
     [chunk_id |-> "chunk_image_unknown", content |-> << >>,
      metadata |-> [doc_type |-> "image"]]}

(* the vector store of an earlier build *)
OldIndexFile == FileOf(<<EmbedModel(<<"a">>)>>)

OldMetadataFile == FileOf(MetadataArray(<<ChunkAt(1, <<"a">>)>>, <<ChunkIdOf(1)>>))

BuildIdle(builds) ==
    [op |-> "idle", phase |-> "idle", builds |-> builds, input |-> << >>,
     raised |-> FALSE, index |-> << >>, metadata_loaded |-> FALSE,
     metadata |-> << >>, index_written |-> FALSE, metadata_written |-> FALSE]

(* faiss_index and metadata are the two files of the vector store on disk: *)
(* none yet, or those of an earlier build                                  *)
BuildInit ==
    /\ \/ faiss_index = NoFile /\ metadata = NoFile
       \/ faiss_index = OldIndexFile /\ metadata = OldMetadataFile
    /\ chunks = << >>
    /\ embedding_manager = TRUE
    /\ embedding_cache = << >>
    /\ conversation_history = << >>
    /\ call = BuildIdle(0)

BuildIndexFromChunks ==
    /\ call.phase = "idle"
    /\ call.builds < MaxBuilds
    /\ \E chunks_in \in SeqsUpTo(BuildChunks, MaxBuildChunks) :
         \E o \in build_index_from_chunks(chunks_in, embedding_cache,
                                          faiss_index, metadata) :
            /\ faiss_index' = o.index_file
            /\ metadata' = o.metadata_file
            /\ embedding_cache' = o.cache
            /\ call' = [op |-> "build_index_from_chunks",
                        phase |-> IF o.raised THEN "raised" ELSE "returned",
                        builds |-> call.builds + 1, input |-> chunks_in,
                        raised |-> o.raised, index |-> o.index,
                        metadata_loaded |-> o.metadata_loaded,
                        metadata |-> o.metadata,
                        index_written |-> o.index_written,
                        metadata_written |-> o.metadata_written]
    /\ UNCHANGED <<chunks, embedding_manager, conversation_history>>

(* the caller takes the pair or the exception; the files and the cache stay *)
BuildReturn ==
    /\ call.phase \in {"returned", "raised"}
    /\ call' = BuildIdle(call.builds)
    /\ UNCHANGED <<faiss_index, metadata, chunks, embedding_manager, conversation_history, embedding_cache>>

BuildNext ==
    \/ BuildIndexFromChunks
    \/ BuildReturn

SpecBuild == BuildInit /\ [][BuildNext]_vars

(* ------------------ properties of build_index_from_chunks -------------- *)

BuildReturned == call.op = "build_index_from_chunks" /\ call.phase = "returned"

(* C25: after a build_index_from_chunks whose two writes succeeded the     *)
(* metadata array has one entry per vector of the index, and entry i has   *)
(* the chunk_id, content and metadata of the chunk whose content was       *)
(* embedded into vector i, the i-th chunk of the input.                    *)
C25_MetadataAlignedWithIndex ==
    (BuildReturned /\ call.index_written /\ call.metadata_written)
        => /\ call.metadata_loaded
           /\ Len(call.metadata) = Len(call.index)
           /\ \A i \in 1..Len(call.index) :
                /\ call.metadata[i].chunk_id = call.input[i].chunk_id
                /\ call.metadata[i].content = call.input[i].content
                /\ call.metadata[i].metadata = call.input[i].metadata

(* C26: build_index_from_chunks returns to its caller as successful only   *)
(* when both writes have succeeded: the index file holds the index         *)
(* returned and the metadata file the metadata array of this build.        *)
C26_BothFilesOrFailure ==
    BuildReturned
        => /\ call.index_written
           /\ call.metadata_written
           /\ faiss_index = FileOf(call.index)
           /\ metadata = FileOf(MetadataArray(call.input, [i \in 1..Len(call.input) |->
                                                             call.input[i].chunk_id]))


(* ------------- a SearchEngine made from the persisted files ------------ *)

(* the app has read faiss_index.bin, metadata.json and the chunk file; the *)
(* two files of the vector store are written one by one (save_index, then  *)
(* save_metadata), so the index read may be longer or shorter than the     *)
(* metadata array                                                          *)
StoreInit ==
    /\ \E n \in 1..MaxN, m \in 1..MaxN :
        /\ faiss_index \in [1..n -> Coords]
        /\ \E contents \in [1..m -> Contents] :
            /\ chunks = [i \in 1..m |-> ChunkAt(i, contents[i])]
            /\ metadata = [i \in 1..m |-> ChunkAt(i, contents[i])]
    /\ embedding_manager = TRUE
    /\ embedding_cache = << >>
    /\ conversation_history = << >>
    /\ call = [NoCall EXCEPT !.op = "read_files", !.phase = "loaded"]

(* SearchEngine.__init__: the four arguments become the fields of the      *)
(* engine and the BM25 index is built; nothing is compared                 *)
ConstructEngine ==
    /\ call.phase = "loaded"
    /\ call' = NoCall
    /\ UNCHANGED <<faiss_index, metadata, chunks, embedding_manager, conversation_history, embedding_cache>>

StoreNext ==
    \/ ConstructEngine
    \/ \E query \in Queries, top_k \in TopKs : VectorSearch(query, top_k)
    \/ TakeResult

SpecStore == StoreInit /\ [][StoreNext]_vars

(* C27: an index and a metadata array of different lengths are rejected    *)
(* when they are loaded or when the SearchEngine is made from them: no     *)
(* engine exists on such a pair and no search returns from it.             *)
C27_DesynchronisedPairRejected ==
    Len(faiss_index) # Len(metadata)
        => /\ call.phase \in {"loaded", "rejected"}
           /\ ~(call.op = "vector_search" /\ call.phase = "returned")


(* -------------------- QASystem: conversation history ------------------- *)

(* generate_answer keeps the last 20 messages                              *)
HistoryLimit == 20

(* None, as generate_answer returns it from its except branch              *)
NoAnswer == "None"

Message(role, content) == [role |-> role, content |-> content]

SystemMessage == Message("system", <<"system_prompt">>)

(* the f-string of generate_answer: the context, the question and the      *)
(* output requirements                                                     *)
UserPrompt(context, query) == <<context, "question", query, "json_only">>

(* history[-n:]                                                            *)
LastMessages(history, n) ==
    IF Len(history) <= n
    THEN history
    ELSE SubSeq(history, Len(history) - n + 1, Len(history))

(* as TrimHistory, but one message more is kept                            *)
TrimHistory_off_by_one(history) ==
    IF Len(history) > HistoryLimit
    THEN LastMessages(history, HistoryLimit + 1)
    ELSE history

(* if len(self.conversation_history) > 20: keep [-20:]                     *)
TrimHistory(history) ==
    IF Len(history) > HistoryLimit
    THEN LastMessages(history, HistoryLimit)
    ELSE history

(* the messages of the request: system prompt, the history when it is used *)
(* and not empty, the user prompt                                          *)
RequestMessages(history, user_prompt, use_history) ==
    <<SystemMessage>>
        \o (IF use_history /\ history # << >> THEN history ELSE << >>)
        \o <<Message("user", user_prompt)>>

(* what the chat completion does: it raises, it answers, or it answers     *)
(* with a response whose usage field is None                               *)
LlmOutcomes == {"raises", "answered", "answered_no_usage"}

(* generate_answer: the history after the call and the returned value.     *)
(* Everything is inside one try: a raising request returns None before the *)
(* history is touched; after an answer the two messages are appended and   *)
(* the history is trimmed, and reading usage.prompt_tokens of a missing    *)
(* usage then raises into the same except, which returns None              *)
generate_answer(history, query, context, use_history, outcome, answer) ==
    LET user_prompt == UserPrompt(context, query)
        messages == RequestMessages(history, user_prompt, use_history)
        appended == history \o <<Message("user", user_prompt),
                                 Message("assistant", answer)>>
    IN  IF outcome = "raises"
        THEN [history |-> history, messages |-> messages, result |-> NoAnswer]
        ELSE [history |-> IF use_history THEN TrimHistory(appended) ELSE history,
              messages |-> messages,
              result |-> IF outcome = "answered" THEN answer ELSE NoAnswer]

(* clear_history                                                           *)
clear_history(history) == << >>

QAQueries == {"q1", "q2"}
QAContexts == {"ctx"}
Answers == {"json_answer"}

QAIdle ==
    [op |-> "idle", phase |-> "idle", history_before |-> << >>,
     use_history |-> FALSE, outcome |-> "none", user_prompt |-> << >>,
     answer |-> NoAnswer, messages |-> << >>, result |-> NoAnswer]

(* __init__: self.conversation_history = []                                *)
QAInit ==
    /\ faiss_index = <<0>>
    /\ chunks = <<ChunkAt(1, <<"a">>)>>
    /\ metadata = <<ChunkAt(1, <<"a">>)>>
    /\ embedding_manager = TRUE
    /\ embedding_cache = << >>
    /\ conversation_history = << >>
    /\ call = QAIdle

GenerateAnswer ==
    /\ call.phase = "idle"
    /\ \E query \in QAQueries, context \in QAContexts, use_history \in BOOLEAN,
          outcome \in LlmOutcomes, answer \in Answers :
        LET out == generate_answer(conversation_history, query, context,
                                   use_history, outcome, answer)
        IN  /\ conversation_history' = out.history
            /\ call' = [op |-> "generate_answer", phase |-> "returned",
                        history_before |-> conversation_history,
                        use_history |-> use_history, outcome |-> outcome,
                        user_prompt |-> UserPrompt(context, query),
                        answer |-> answer, messages |-> out.messages,
                        result |-> out.result]
    /\ UNCHANGED <<faiss_index, metadata, chunks, embedding_manager, embedding_cache>>

ClearHistory ==
    /\ call.phase = "idle"
    /\ conversation_history' = clear_history(conversation_history)
    /\ call' = [QAIdle EXCEPT !.op = "clear_history", !.phase = "returned",
                              !.history_before = conversation_history]
    /\ UNCHANGED <<faiss_index, metadata, chunks, embedding_manager, embedding_cache>>

QAReturn ==
    /\ call.phase = "returned"
    /\ call' = QAIdle
    /\ UNCHANGED <<faiss_index, metadata, chunks, embedding_manager, embedding_cache,
                   conversation_history>>

QANext ==
    \/ GenerateAnswer
    \/ ClearHistory
    \/ QAReturn

SpecQA == QAInit /\ [][QANext]_vars

QAReturned(op) == call.op = op /\ call.phase = "returned"

(* user, assistant, user, assistant, ...                                   *)
Alternating(history) ==
    \A i \in 1..Len(history) :
        history[i].role = (IF i % 2 = 1 THEN "user" ELSE "assistant")

(* the history before the call, one user and one assistant message more,   *)
(* cut to its last 20 messages                                             *)
AppendedAndTrimmed(before, user_prompt, answer) ==
    LET full == before \o <<[role |-> "user", content |-> user_prompt],
                            [role |-> "assistant", content |-> answer]>>
    IN  IF Len(full) > 20
        THEN [i \in 1..20 |-> full[Len(full) - 20 + i]]
        ELSE full

====
